---- MODULE Spec2Model ----
(***************************************************************************)
(* BDIR Patch Protocol v1: validator, applier and op canonicalization of   *)
(* crates/bdir-patch, with the document model of crates/bdir-core and the  *)
(* edit-packet projection of crates/bdir-editpacket.                       *)
(*                                                                         *)
(* Encoding.  A string is a sequence of characters (one-character TLA+     *)
(* strings); the character "E" stands for the precomposed U+00E9, "e" for  *)
(* U+0065 and "'" for the combining acute U+0301, so that <<"e","'">> and  *)
(* <<"E">> are canonically equivalent but differently encoded.  A block id *)
(* is a sequence of tokens; "_ins" is one token.  Option<T> is a sequence  *)
(* of length 0 (None) or 1 (Some).  A hash value is <<"H", algo, payload>>:*)
(* a collision-free hash.                                                  *)
(***************************************************************************)
EXTENDS Integers, Sequences, FiniteSets, TLC

\* ------------------------------------------------------------------ bounds
MaxOps == 2

\* ------------------------------------------------------------ Option type
None == <<>>

Some(x) == <<x>>

IsSome(o) == Len(o) > 0

IsNone(o) == Len(o) = 0

Unwrap(o) == o[1]

\* ---------------------------------------------------------- string helpers
\* byte order of the first byte of each character (String::cmp is bytewise)
CharRank(c) ==
  CASE c = "\t" -> 9
    [] c = "\n" -> 10
    [] c = "\r" -> 13
    [] c = " " -> 32
    [] c = "2" -> 50
    [] c = "3" -> 51
    [] c = "4" -> 52
    [] c = "5" -> 53
    [] c = "X" -> 88
    [] c = "_ins" -> 95
    [] c = "a" -> 97
    [] c = "b" -> 98
    [] c = "c" -> 99
    [] c = "e" -> 101
    [] c = "n" -> 110
    [] c = "p" -> 112
    [] c = "q" -> 113
    [] c = "z" -> 122
    [] c = "E" -> 195
    [] c = "'" -> 204
    [] OTHER -> 255

\* Ordering of two strings: -1, 0, 1 (lexicographic, shorter prefix first)
RECURSIVE StrCmp(_, _)
StrCmp(s, t) ==
  IF Len(s) = 0 /\ Len(t) = 0 THEN 0
  ELSE IF Len(s) = 0 THEN -1
  ELSE IF Len(t) = 0 THEN 1
  ELSE IF CharRank(Head(s)) < CharRank(Head(t)) THEN -1
  ELSE IF CharRank(Head(s)) > CharRank(Head(t)) THEN 1
  ELSE StrCmp(Tail(s), Tail(t))

\* haystack[start..] starts with needle (start is 1-based)
StartsAt(h, n, start) ==
  /\ start + Len(n) - 1 <= Len(h)
  /\ SubSeq(h, start, start + Len(n) - 1) = n

\* str::find from a position: the smallest i >= start where needle occurs, 0 if none
RECURSIVE FindFrom(_, _, _)
FindFrom(h, n, start) ==
  IF start + Len(n) - 1 > Len(h) THEN 0
  ELSE IF StartsAt(h, n, start) THEN start
  ELSE FindFrom(h, n, start + 1)

IsWhite(c) == c \in {" ", "\t", "\n", "\r"}

\* str::trim().is_empty()
TrimIsEmpty(s) == \A i \in 1..Len(s) : IsWhite(s[i])

\* unicode_normalization NFC, on the modelled repertoire: e + U+0301 composes to U+00E9
RECURSIVE normalize_nfc(_)
normalize_nfc(s) ==
  IF Len(s) = 0 THEN <<>>
  ELSE IF Len(s) >= 2 /\ s[1] = "e" /\ s[2] = "'"
       THEN <<"E">> \o normalize_nfc(SubSeq(s, 3, Len(s)))
       ELSE <<s[1]>> \o normalize_nfc(Tail(s))

\* --------------------------------------------------------------- hashing
\* a space or tab with nothing but spaces and tabs up to the end of its line
TrailingWs(s, i) ==
  /\ s[i] \in {" ", "\t"}
  /\ \A j \in i..Len(s) :
       (\A k \in i..j : s[k] # "\n") => s[j] \in {" ", "\t"}

RECURSIVE NormalizeNewlines(_)
NormalizeNewlines(s) ==
  IF Len(s) = 0 THEN <<>>
  ELSE IF Len(s) >= 2 /\ s[1] = "\r" /\ s[2] = "\n"
       THEN <<"\n">> \o NormalizeNewlines(SubSeq(s, 3, Len(s)))
  ELSE IF s[1] = "\r" THEN <<"\n">> \o NormalizeNewlines(Tail(s))
  ELSE <<s[1]>> \o NormalizeNewlines(Tail(s))

RECURSIVE DropTrailingWs(_, _)
DropTrailingWs(s, i) ==
  IF i > Len(s) THEN <<>>
  ELSE (IF TrailingWs(s, i) THEN <<>> ELSE <<s[i]>>) \o DropTrailingWs(s, i + 1)

canonicalize_text(input) == DropTrailingWs(NormalizeNewlines(input), 1)

SupportedAlgos == {"xxh64", "sha256"}

\* hash registry: Some(hex) for a registered algorithm name, None otherwise
hash_hex(algo, input) ==
  IF algo \in SupportedAlgos THEN Some(<<"H", algo, input>>) ELSE None

hash_canon_hex(algo, input) ==
  hash_hex(algo, normalize_nfc(canonicalize_text(input)))

\* str::trim().to_lowercase() on the algorithm names of the model
TrimLower(a) ==
  CASE a = "XXH64" -> "xxh64"
    [] a = " xxh64 " -> "xxh64"
    [] a = " " -> ""
    [] OTHER -> a

\* -------------------------------------------------------- document model
Block(id, kind_code, text_hash, text) ==
  [id |-> id, kind_code |-> kind_code, text_hash |-> text_hash, text |-> text]

Document(page_hash, hash_algorithm, blocks) ==
  [page_hash |-> page_hash, hash_algorithm |-> hash_algorithm, blocks |-> blocks]

\* Err(..) when the declared algorithm is empty or unsupported
normalize_hash_algorithm(d) ==
  LET algo == TrimLower(d.hash_algorithm) IN
  IF algo = "" \/ IsNone(hash_hex(algo, <<>>))
  THEN [ok |-> FALSE, doc |-> d]
  ELSE [ok |-> TRUE, doc |-> [d EXCEPT !.hash_algorithm = algo]]

\* rows "{id}\t{kind_code}\t{text_hash}\n" in block order
PagePayload(blocks) ==
  [i \in 1..Len(blocks) |-> <<blocks[i].id, blocks[i].kind_code, blocks[i].text_hash>>]

\* a rehash that also stores each text in the NFC form it hashed
RehashBlocksStoringNfc(algo, blocks) ==
  [i \in 1..Len(blocks) |->
     [blocks[i] EXCEPT !.text_hash = Unwrap(hash_canon_hex(algo, blocks[i].text)),
                       !.text = normalize_nfc(blocks[i].text)]]

RehashBlocks(algo, blocks) ==
  [i \in 1..Len(blocks) |->
     [blocks[i] EXCEPT !.text_hash = Unwrap(hash_canon_hex(algo, blocks[i].text))]]

try_recompute_hashes(d) ==
  LET n == normalize_hash_algorithm(d) IN
  IF ~n.ok THEN n
  ELSE LET algo == n.doc.hash_algorithm
           bs == RehashBlocks(algo, n.doc.blocks)
       IN [ok |-> TRUE,
           doc |-> Document(Unwrap(hash_hex(algo, PagePayload(bs))), algo, bs)]

\* ---------------------------------------------------------- edit packet
EditPacketV1(v, tid, h, ha, b) == [v |-> v, tid |-> tid, h |-> h, ha |-> ha, b |-> b]

\* block tuples keep the field names of Block: (id, kind_code, text_hash, text)
from_document(d, tid) == EditPacketV1(1, tid, d.page_hash, d.hash_algorithm, d.blocks)

\* --------------------------------------------------------- patch schema
OpTypes == {"replace", "delete", "insert_after", "insert_before",
            "replace_block", "delete_block", "suggest"}

\* occurrence: None | Some(Index(n)) | Some(Legacy(First | All))
Index(n) == <<"index", n>>

LegacyFirst == <<"legacy", "first">>

LegacyAll == <<"legacy", "all">>

IsIndex(o) == o[1] = "index"

PatchOpV1(op, block_id, before, after, occurrence, new_block_id, kind_code, text, message) ==
  [op |-> op, block_id |-> block_id, before |-> before, after |-> after,
   occurrence |-> occurrence, new_block_id |-> new_block_id,
   kind_code |-> kind_code, text |-> text, message |-> message]

PatchV1(v, h, ha, ops) == [v |-> v, h |-> h, ha |-> ha, ops |-> ops]

\* ----------------------------------------------------- validate options
KindCodePolicy(allow_ranges, allow_suggest_any) ==
  [allow_ranges |-> allow_ranges, allow_suggest_any |-> allow_suggest_any]

ValidateOptions(min_before_len, strict_kind_code, kind_code_policy,
                expected_page_hash, strict_page_hash_binding) ==
  [min_before_len |-> min_before_len, strict_kind_code |-> strict_kind_code,
   kind_code_policy |-> kind_code_policy,
   expected_page_hash |-> expected_page_hash,
   strict_page_hash_binding |-> strict_page_hash_binding]

DefaultMinBeforeLen == 8

DefaultAllowLo == 0

DefaultAllowHi == 19

DefaultPolicy == KindCodePolicy(<<<<DefaultAllowLo, DefaultAllowHi>>>>, TRUE)

DefaultOptions == ValidateOptions(DefaultMinBeforeLen, FALSE, DefaultPolicy, None, FALSE)

\* ----------------------------------------------------------- diagnostics
\* Result<(), ValidationError>: the error holds exactly one diagnostic
VOk == [ok |-> TRUE, code |-> "", path |-> <<>>, op_index |-> None, op |-> None,
        block_id |-> None, message |-> ""]

err_root(code, path, message) ==
  [ok |-> FALSE, code |-> code, path |-> <<path>>, op_index |-> None, op |-> None,
   block_id |-> None, message |-> message]

\* i is the 1-based position in the model; op_index reports the code's 0-based index
err_op(code, i, op, block_id, path, message) ==
  [ok |-> FALSE, code |-> code, path |-> path, op_index |-> Some(i - 1),
   op |-> Some(op), block_id |-> block_id, message |-> message]

OpPath(i, field) == <<"ops", i - 1, field>>

\* -------------------------------------------------------------- validator
\* a policy that holds suggest to the ranges like any other op
PolicyAllowsRangesOnly(policy, op, kind_code) ==
  \E r \in 1..Len(policy.allow_ranges) :
    policy.allow_ranges[r][1] <= kind_code /\ kind_code <= policy.allow_ranges[r][2]

PolicyAllows(policy, op, kind_code) ==
  \/ op = "suggest" /\ policy.allow_suggest_any
  \/ \E r \in 1..Len(policy.allow_ranges) :
       policy.allow_ranges[r][1] <= kind_code /\ kind_code <= policy.allow_ranges[r][2]

enforce_kind_code(i, op, block_id, kind_code, opts) ==
  IF ~opts.strict_kind_code THEN VOk
  ELSE IF PolicyAllows(opts.kind_code_policy, op, kind_code) THEN VOk
  ELSE err_op("kind_code_disallowed", i, op, Some(block_id), OpPath(i, "block_id"),
              "targets kindCode disallowed under strict kindCode policy")

\* the counting loop of count_non_overlapping over NFC views
RECURSIVE CountFrom(_, _, _)
CountFrom(h, n, start) ==
  LET pos == FindFrom(h, n, start) IN
  IF pos = 0 THEN 0
  ELSE IF pos + Len(n) > Len(h) THEN 1
  ELSE 1 + CountFrom(h, n, pos + Len(n))

count_non_overlapping(haystack, needle) ==
  LET h == normalize_nfc(haystack)
      n == normalize_nfc(needle)
  IN IF Len(n) = 0 THEN 0 ELSE CountFrom(h, n, 1)

\* a guard that counts the codepoints of `before` as written, not of its NFC form
guard_before_diag_raw(i, op, block_id, before, min_before_len) ==
  IF TrimIsEmpty(normalize_nfc(before))
  THEN err_op("before_empty", i, op, Some(block_id), OpPath(i, "before"), "before is empty")
  ELSE IF Len(before) < min_before_len
  THEN err_op("before_too_short", i, op, Some(block_id), OpPath(i, "before"),
              "before is too short; likely ambiguous")
  ELSE VOk

guard_before_diag(i, op, block_id, before, min_before_len) ==
  LET before_nfc == normalize_nfc(before) IN
  IF TrimIsEmpty(before_nfc)
  THEN err_op("before_empty", i, op, Some(block_id), OpPath(i, "before"), "before is empty")
  ELSE IF Len(before_nfc) < min_before_len
  THEN err_op("before_too_short", i, op, Some(block_id), OpPath(i, "before"),
              "before is too short; likely ambiguous")
  ELSE VOk

\* position of the first block with this id, 0 when there is none
RECURSIVE FirstIndexFrom(_, _, _)
FirstIndexFrom(blocks, id, i) ==
  IF i > Len(blocks) THEN 0
  ELSE IF blocks[i].id = id THEN i
  ELSE FirstIndexFrom(blocks, id, i + 1)

\* a validator without the comparison against the target's page hash
PageHashCompareSkipped(doc, expected) == VOk

\* the stored page hash of the target against the expected one
PageHashCompare(doc, expected) ==
  IF doc.page_hash # expected
  THEN err_root("patch_page_hash_mismatch", "h", "patch page hash mismatch (expected, got)")
  ELSE VOk

\* a validator that does not know strict binding
StrictBindingSkipped(patch, opts) == VOk

\* strict_page_hash_binding: the patch itself must carry h and a non-blank ha
StrictBinding(patch, opts) ==
  IF ~opts.strict_page_hash_binding THEN VOk
  ELSE IF IsNone(patch.h)
  THEN err_root("patch_page_hash_missing", "h",
                "patch is missing required page hash binding (strict)")
  ELSE IF TrimLower(IF IsSome(patch.ha) THEN Unwrap(patch.ha) ELSE "") = ""
  THEN err_root("missing_field", "ha",
                "patch is missing required hash algorithm binding (strict)")
  ELSE VOk

\* a resolution in which patch.h wins over expected_page_hash without comparing the two
ExpectedHashPatchWins(patch, opts) ==
  IF IsSome(patch.h) THEN [diag |-> VOk, expected |-> patch.h]
  ELSE IF IsSome(opts.expected_page_hash)
  THEN [diag |-> VOk, expected |-> opts.expected_page_hash]
  ELSE [diag |-> err_root("patch_page_hash_missing", "h",
                          "patch is missing required page hash binding"),
        expected |-> None]

\* `let expected = match (patch.h, opts.expected_page_hash)`: a diagnostic or Some(hash)
ExpectedHashOf(patch, opts) ==
  IF IsSome(patch.h) /\ IsSome(opts.expected_page_hash)
  THEN IF Unwrap(patch.h) # Unwrap(opts.expected_page_hash)
       THEN [diag |-> err_root("patch_page_hash_mismatch", "h",
                               "patch page hash mismatch (patch.h differs from expected_page_hash)"),
             expected |-> None]
       ELSE [diag |-> VOk, expected |-> patch.h]
  ELSE IF IsSome(patch.h) THEN [diag |-> VOk, expected |-> patch.h]
  ELSE IF IsSome(opts.expected_page_hash)
  THEN [diag |-> VOk, expected |-> opts.expected_page_hash]
  ELSE [diag |-> err_root("patch_page_hash_missing", "h",
                          "patch is missing required page hash binding"),
        expected |-> None]

\* an algorithm binding that compares patch.ha with the document's algorithm as written
AlgorithmBindingVerbatim(doc, patch) ==
  IF IsNone(patch.h) \/ IsNone(patch.ha) THEN VOk
  ELSE IF TrimLower(Unwrap(patch.ha)) = ""
  THEN err_root("missing_field", "ha", "patch ha is empty")
  ELSE IF Unwrap(patch.ha) # doc.hash_algorithm
  THEN err_root("hash_algorithm_mismatch", "ha", "patch hash algorithm mismatch")
  ELSE VOk

\* patch.ha is looked at only when patch.h is present
AlgorithmBinding(doc, patch) ==
  IF IsNone(patch.h) \/ IsNone(patch.ha) THEN VOk
  ELSE IF TrimLower(Unwrap(patch.ha)) = ""
  THEN err_root("missing_field", "ha", "patch ha is empty")
  ELSE IF TrimLower(Unwrap(patch.ha)) # TrimLower(doc.hash_algorithm)
  THEN err_root("hash_algorithm_mismatch", "ha", "patch hash algorithm mismatch")
  ELSE VOk

\* envelope checks: version, strict binding, expected hash, algorithm, page hash
EnvelopeCheck(doc, patch, opts) ==
  IF patch.v # 1
  THEN err_root("unsupported_patch_version", "v", "unsupported patch version")
  ELSE IF ~StrictBinding(patch, opts).ok THEN StrictBinding(patch, opts)
  ELSE IF ~ExpectedHashOf(patch, opts).diag.ok THEN ExpectedHashOf(patch, opts).diag
  ELSE IF ~AlgorithmBinding(doc, patch).ok THEN AlgorithmBinding(doc, patch)
  ELSE PageHashCompare(doc, Unwrap(ExpectedHashOf(patch, opts).expected))

\* seen[block_id]: the indices of the ops naming block_id, ascending
RECURSIVE OpSetFrom(_, _, _)
OpSetFrom(ops, block_id, i) ==
  IF i > Len(ops) THEN <<>>
  ELSE (IF ops[i].block_id = block_id THEN <<i>> ELSE <<>>) \o OpSetFrom(ops, block_id, i + 1)

\* a scan that reports the first op of the group whatever its type
FindInOpSetFirst(ops, opset, types, j) == opset[1]

\* opset.iter().find(pred).unwrap_or(opset[0]), pred given as a set of op types
RECURSIVE FindInOpSet(_, _, _, _)
FindInOpSet(ops, opset, types, j) ==
  IF j > Len(opset) THEN opset[1]
  ELSE IF ops[opset[j]].op \in types THEN opset[j]
  ELSE FindInOpSet(ops, opset, types, j + 1)

ConflictOfGroup(ops, block_id) ==
  LET opset == OpSetFrom(ops, block_id, 1)
      has(types) == \E j \in 1..Len(opset) : ops[opset[j]].op \in types
  IN
  IF has({"delete_block"}) /\ Len(opset) > 1
  THEN LET i == FindInOpSet(ops, opset, OpTypes \ {"delete_block"}, 1) IN
       err_op("conflicting_operations", i, ops[i].op, Some(block_id), OpPath(i, "op"),
              "delete_block cannot be combined with other ops")
  ELSE IF has({"replace_block"}) /\ has({"replace", "delete"})
  THEN LET i == FindInOpSet(ops, opset, {"replace", "delete"}, 1) IN
       err_op("conflicting_operations", i, ops[i].op, Some(block_id), OpPath(i, "op"),
              "replace_block cannot be combined with substring replace/delete")
  ELSE VOk

\* `for (block_id, opset) in &seen`: order is the iteration order of the HashMap
RECURSIVE ConflictScan(_, _, _)
ConflictScan(ops, order, g) ==
  IF g > Len(order) THEN VOk
  ELSE LET r == ConflictOfGroup(ops, order[g]) IN
       IF ~r.ok THEN r ELSE ConflictScan(ops, order, g + 1)

\* the keys of `seen`
SeenKeys(ops) == {ops[i].block_id : i \in 1..Len(ops)}

\* every iteration order a HashMap over these keys can have
IterationOrders(keys) ==
  {o \in [1..Cardinality(keys) -> keys] : \A i, j \in DOMAIN o : i # j => o[i] # o[j]}

\* a selector check that takes an absent occurrence for the first match
CheckOccurrenceFirstMatch(i, op, matches, legacy_ok) ==
  IF IsNone(op.occurrence) \/ legacy_ok THEN VOk
  ELSE IF IsIndex(Unwrap(op.occurrence))
          /\ Unwrap(op.occurrence)[2] > 0 /\ Unwrap(op.occurrence)[2] <= matches
  THEN VOk
  ELSE err_op("occurrence_out_of_range", i, op.op, Some(op.block_id),
              OpPath(i, "occurrence"), "occurrence out of range")

\* replace / delete: the occurrence selector against the number of matches
CheckOccurrence(i, op, matches, legacy_ok) ==
  IF IsNone(op.occurrence)
  THEN IF matches > 1
       THEN err_op("before_ambiguous", i, op.op, Some(op.block_id), OpPath(i, "before"),
                   "before substring is ambiguous; provide occurrence")
       ELSE VOk
  ELSE IF IsIndex(Unwrap(op.occurrence))
  THEN IF Unwrap(op.occurrence)[2] = 0 \/ Unwrap(op.occurrence)[2] > matches
       THEN err_op("occurrence_out_of_range", i, op.op, Some(op.block_id),
                   OpPath(i, "occurrence"), "occurrence out of range")
       ELSE VOk
  ELSE IF legacy_ok THEN VOk
  ELSE err_op("unexpected_field", i, op.op, Some(op.block_id), OpPath(i, "occurrence"),
              "invalid occurrence value (legacy string values are delete-only)")

ValidateReplace(i, op, block, opts) ==
  IF IsNone(op.before)
  THEN err_op("missing_field", i, op.op, Some(op.block_id), OpPath(i, "before"),
              "missing before")
  ELSE IF IsNone(op.after)
  THEN err_op("missing_field", i, op.op, Some(op.block_id), OpPath(i, "after"),
              "missing after")
  ELSE LET g == guard_before_diag(i, op.op, op.block_id, Unwrap(op.before),
                                  opts.min_before_len)
           matches == count_non_overlapping(block.text, Unwrap(op.before))
       IN IF ~g.ok THEN g
          ELSE IF matches = 0
          THEN err_op("before_not_found", i, op.op, Some(op.block_id), OpPath(i, "before"),
                      "before substring not found in block")
          ELSE CheckOccurrence(i, op, matches, FALSE)

ValidateDelete(i, op, block, opts) ==
  IF IsNone(op.before)
  THEN err_op("missing_field", i, op.op, Some(op.block_id), OpPath(i, "before"),
              "missing before")
  ELSE LET matches == count_non_overlapping(block.text, Unwrap(op.before))
           g == guard_before_diag(i, op.op, op.block_id, Unwrap(op.before),
                                  opts.min_before_len)
       IN IF ~g.ok THEN g
          ELSE IF matches = 0
          THEN err_op("before_not_found", i, op.op, Some(op.block_id), OpPath(i, "before"),
                      "before substring not found in block")
          ELSE CheckOccurrence(i, op, matches, TRUE)

\* insert_after and insert_before run the same checks
ValidateInsert(i, op, doc) ==
  LET unexpected(field) ==
        err_op("unexpected_field", i, op.op, Some(op.block_id), OpPath(i, field),
               "unexpected field on insert")
      missing(field) ==
        err_op("missing_field", i, op.op, Some(op.block_id), OpPath(i, field),
               "missing field on insert")
  IN
  IF IsSome(op.occurrence) THEN unexpected("occurrence")
  ELSE IF IsSome(op.before) THEN unexpected("before")
  ELSE IF IsSome(op.after) THEN unexpected("after")
  ELSE IF IsSome(op.message) THEN unexpected("message")
  ELSE IF IsNone(op.new_block_id) THEN missing("new_block_id")
  ELSE IF TrimIsEmpty(Unwrap(op.new_block_id))
  THEN err_op("content_empty", i, op.op, Some(op.block_id), OpPath(i, "new_block_id"),
              "new_block_id is empty")
  ELSE IF \E j \in 1..Len(doc.blocks) : doc.blocks[j].id = Unwrap(op.new_block_id)
  THEN err_op("duplicate_block_id", i, op.op, Some(op.block_id), OpPath(i, "new_block_id"),
              "new_block_id already exists")
  ELSE IF IsNone(op.kind_code) THEN missing("kind_code")
  ELSE IF IsNone(op.text) THEN missing("text")
  ELSE IF TrimIsEmpty(Unwrap(op.text))
  THEN err_op("content_empty", i, op.op, Some(op.block_id), OpPath(i, "text"),
              "text is empty")
  ELSE VOk

ValidateReplaceBlock(i, op) ==
  LET unexpected(field) ==
        err_op("unexpected_field", i, op.op, Some(op.block_id), OpPath(i, field),
               "unexpected field on replace_block")
  IN
  IF IsSome(op.occurrence) THEN unexpected("occurrence")
  ELSE IF IsSome(op.before) THEN unexpected("before")
  ELSE IF IsSome(op.after) THEN unexpected("after")
  ELSE IF IsSome(op.new_block_id) THEN unexpected("new_block_id")
  ELSE IF IsSome(op.message) THEN unexpected("message")
  ELSE IF IsNone(op.text)
  THEN err_op("missing_field", i, op.op, Some(op.block_id), OpPath(i, "text"),
              "missing text")
  ELSE IF TrimIsEmpty(Unwrap(op.text))
  THEN err_op("content_empty", i, op.op, Some(op.block_id), OpPath(i, "text"),
              "text is empty")
  ELSE VOk

ValidateDeleteBlock(i, op) ==
  IF \/ IsSome(op.occurrence) \/ IsSome(op.before) \/ IsSome(op.after)
     \/ IsSome(op.new_block_id) \/ IsSome(op.kind_code) \/ IsSome(op.text)
     \/ IsSome(op.message)
  THEN err_op("unexpected_field", i, op.op, Some(op.block_id), <<"ops", i - 1>>,
              "delete_block contains fields that are not permitted")
  ELSE VOk

ValidateSuggest(i, op) ==
  LET unexpected(field) ==
        err_op("unexpected_field", i, op.op, Some(op.block_id), OpPath(i, field),
               "unexpected field on suggest")
  IN
  IF IsSome(op.occurrence) THEN unexpected("occurrence")
  ELSE IF IsSome(op.before) THEN unexpected("before")
  ELSE IF IsSome(op.after) THEN unexpected("after")
  ELSE IF IsSome(op.text) \/ IsSome(op.new_block_id) \/ IsSome(op.kind_code)
  THEN unexpected("text")
  ELSE IF IsNone(op.message)
  THEN err_op("missing_field", i, op.op, Some(op.block_id), OpPath(i, "message"),
              "missing message")
  ELSE IF TrimIsEmpty(Unwrap(op.message))
  THEN err_op("message_empty", i, op.op, Some(op.block_id), OpPath(i, "message"),
              "message is empty")
  ELSE VOk

\* one iteration of the per-op loop: every check is made against the input document
ValidateOp(doc, i, op, opts) ==
  LET idx == FirstIndexFrom(doc.blocks, op.block_id, 1) IN
  IF idx = 0
  THEN err_op("unknown_block_id", i, op.op, Some(op.block_id), OpPath(i, "block_id"),
              "references unknown block_id")
  ELSE LET block == doc.blocks[idx]
           k == enforce_kind_code(i, op.op, op.block_id, block.kind_code, opts)
       IN IF ~k.ok THEN k
          ELSE CASE op.op = "replace" -> ValidateReplace(i, op, block, opts)
                 [] op.op = "delete" -> ValidateDelete(i, op, block, opts)
                 [] op.op \in {"insert_after", "insert_before"} -> ValidateInsert(i, op, doc)
                 [] op.op = "replace_block" -> ValidateReplaceBlock(i, op)
                 [] op.op = "delete_block" -> ValidateDeleteBlock(i, op)
                 [] op.op = "suggest" -> ValidateSuggest(i, op)

RECURSIVE ValidateOpsFrom(_, _, _, _)
ValidateOpsFrom(doc, ops, opts, i) ==
  IF i > Len(ops) THEN VOk
  ELSE LET r == ValidateOp(doc, i, ops[i], opts) IN
       IF ~r.ok THEN r ELSE ValidateOpsFrom(doc, ops, opts, i + 1)

\* order: the iteration order the conflict scan's HashMap takes in this call
validate_patch_with_diagnostics(doc, patch, opts, order) ==
  LET e == EnvelopeCheck(doc, patch, opts) IN
  IF ~e.ok THEN e
  ELSE LET c == ConflictScan(patch.ops, order, 1) IN
       IF ~c.ok THEN c
       ELSE ValidateOpsFrom(doc, patch.ops, opts, 1)

\* an applier entry that does not validate
validate_patch_skipped(doc, patch, order) == VOk

validate_patch(doc, patch, order) ==
  validate_patch_with_diagnostics(doc, patch, DefaultOptions, order)

\* a packet validator that leaves expected_page_hash as the caller gave it
validate_patch_against_edit_packet_undefaulted(packet, patch, opts, order) ==
  IF packet.v # 1
  THEN err_root("unsupported_edit_packet_version", "v", "unsupported edit packet version")
  ELSE validate_patch_with_diagnostics(Document(packet.h, packet.ha, packet.b), patch, opts,
                                       order)

validate_patch_against_edit_packet_with_diagnostics(packet, patch, opts, order) ==
  IF packet.v # 1
  THEN err_root("unsupported_edit_packet_version", "v", "unsupported edit packet version")
  ELSE LET o == IF ~opts.strict_page_hash_binding /\ IsNone(opts.expected_page_hash)
                THEN [opts EXCEPT !.expected_page_hash = Some(packet.h)]
                ELSE opts
           doc == Document(packet.h, packet.ha, packet.b)
       IN validate_patch_with_diagnostics(doc, patch, o, order)

\* ---------------------------------------------------------------- applier
find_block_index(blocks, block_id) == FirstIndexFrom(blocks, block_id, 1)

find_doc_block_index(blocks, block_id) == FirstIndexFrom(blocks, block_id, 1)

\* the stored text is searched as it is: no NFC view is taken here
replace_first(haystack, needle, replacement) ==
  IF Len(needle) = 0 THEN haystack
  ELSE LET pos == FindFrom(haystack, needle, 1) IN
       IF pos = 0 THEN haystack
       ELSE SubSeq(haystack, 1, pos - 1) \o replacement
            \o SubSeq(haystack, pos + Len(needle), Len(haystack))

delete_first(haystack, needle) == replace_first(haystack, needle, <<>>)

\* a search that resumes one character after the start of a match: overlapping matches
RECURSIVE NthMatchFromOverlapping(_, _, _, _, _)
NthMatchFromOverlapping(h, b, n, start, count) ==
  LET pos == FindFrom(h, b, start) IN
  IF pos = 0 THEN 0
  ELSE IF count + 1 = n THEN pos
  ELSE NthMatchFromOverlapping(h, b, n, pos + 1, count + 1)

\* position of the n-th non-overlapping match scanning from start, 0 when absent
RECURSIVE NthMatchFrom(_, _, _, _, _)
NthMatchFrom(h, b, n, start, count) ==
  LET pos == FindFrom(h, b, start) IN
  IF pos = 0 THEN 0
  ELSE IF count + 1 = n THEN pos
  ELSE NthMatchFrom(h, b, n, pos + Len(b), count + 1)

replace_nth_non_overlapping(haystack, before, after, n) ==
  IF Len(before) = 0 \/ n = 0 THEN None
  ELSE LET idx == NthMatchFrom(haystack, before, n, 1, 0) IN
       IF idx = 0 THEN None
       ELSE Some(SubSeq(haystack, 1, idx - 1) \o after
                 \o SubSeq(haystack, idx + Len(before), Len(haystack)))

delete_nth_non_overlapping(haystack, before, n) ==
  replace_nth_non_overlapping(haystack, before, <<>>, n)

\* str::replace(before, ""): every non-overlapping match, left to right
RECURSIVE RemoveAllFrom(_, _, _)
RemoveAllFrom(h, b, start) ==
  LET pos == FindFrom(h, b, start) IN
  IF pos = 0 THEN SubSeq(h, start, Len(h))
  ELSE SubSeq(h, start, pos - 1) \o RemoveAllFrom(h, b, pos + Len(b))

\* a removal that stops after the first match
str_replace_first_only(haystack, before) == delete_first(haystack, before)

str_replace_with_empty(haystack, before) ==
  IF Len(before) = 0 THEN haystack ELSE RemoveAllFrom(haystack, before, 1)

IdUsed(blocks, id) == \E j \in 1..Len(blocks) : blocks[j].id = id

\* a numbering that never hands out the number it is started with
RECURSIVE FirstUnusedSuffixAfter(_, _, _)
FirstUnusedSuffixAfter(blocks, base, n) ==
  IF ~IdUsed(blocks, base \o <<ToString(n + 1)>>) THEN base \o <<ToString(n + 1)>>
  ELSE FirstUnusedSuffixAfter(blocks, base, n + 1)

\* `for n in 2u32..`: the first "<base><n>" no block carries
RECURSIVE FirstUnusedSuffix(_, _, _)
FirstUnusedSuffix(blocks, base, n) ==
  IF ~IdUsed(blocks, base \o <<ToString(n)>>) THEN base \o <<ToString(n)>>
  ELSE FirstUnusedSuffix(blocks, base, n + 1)

\* an id minted without looking at the ids in use
make_insert_id_unchecked(blocks, anchor_id) == anchor_id \o <<"_ins">>

make_insert_id_editpacket(blocks, anchor_id) ==
  LET base == anchor_id \o <<"_ins">> IN
  IF ~IdUsed(blocks, base) THEN base ELSE FirstUnusedSuffix(blocks, base, 2)

\* a document surface that numbers every minted id, the first one included
make_insert_id_doc_numbered(blocks, anchor_id) ==
  FirstUnusedSuffix(blocks, anchor_id \o <<"_ins">>, 2)

make_insert_id_doc(blocks, anchor_id) ==
  LET base == anchor_id \o <<"_ins">> IN
  IF ~IdUsed(blocks, base) THEN base ELSE FirstUnusedSuffix(blocks, base, 2)

\* String::new() as a hash placeholder
EmptyHash == <<"", "", <<>>>>

InsertAt(blocks, pos, b) ==
  SubSeq(blocks, 1, pos - 1) \o <<b>> \o SubSeq(blocks, pos, Len(blocks))

StepOk(blocks) == [ok |-> TRUE, b |-> blocks, err |-> ""]

StepErr(blocks, err) == [ok |-> FALSE, b |-> blocks, err |-> err]

\* what an op type without a match arm does to the call: the arm is not in the source
NoArmOutcomes == {"skip", "fail"}

HandledOps == {"replace", "delete", "insert_after", "suggest"}

\* Replace / Delete arms: the text the op leaves, or the error it raises
ReplaceArm(current_text, op) ==
  IF IsNone(op.occurrence)
  THEN Some(replace_first(current_text, Unwrap(op.before), Unwrap(op.after)))
  ELSE IF IsIndex(Unwrap(op.occurrence))
  THEN replace_nth_non_overlapping(current_text, Unwrap(op.before), Unwrap(op.after),
                                   Unwrap(op.occurrence)[2])
  ELSE None

DeleteArm(current_text, op) ==
  IF IsNone(op.occurrence) THEN Some(delete_first(current_text, Unwrap(op.before)))
  ELSE IF Unwrap(op.occurrence) = LegacyAll
  THEN Some(str_replace_with_empty(current_text, Unwrap(op.before)))
  ELSE IF Unwrap(op.occurrence) = LegacyFirst
  THEN Some(delete_first(current_text, Unwrap(op.before)))
  ELSE delete_nth_non_overlapping(current_text, Unwrap(op.before), Unwrap(op.occurrence)[2])

\* one iteration of the op loop of apply_patch_against_edit_packet_with_options
ApplyOpEditPacket(b, op, noarm) ==
  CASE op.op = "replace" ->
         IF IsNone(op.before) THEN StepErr(b, "ops replace missing before")
         ELSE IF IsNone(op.after) THEN StepErr(b, "ops replace missing after")
         ELSE LET idx == find_block_index(b, op.block_id) IN
              IF idx = 0 THEN StepErr(b, "unknown block_id")
              ELSE LET next_text == ReplaceArm(b[idx].text, op) IN
                   IF IsNone(next_text)
                   THEN StepErr(b, IF IsIndex(Unwrap(op.occurrence))
                                   THEN "replace occurrence out of range"
                                   ELSE "replace occurrence must be an integer")
                   ELSE StepOk([b EXCEPT ![idx].text = Unwrap(next_text)])
    [] op.op = "delete" ->
         IF IsNone(op.before) THEN StepErr(b, "ops delete missing before")
         ELSE LET idx == find_block_index(b, op.block_id) IN
              IF idx = 0 THEN StepErr(b, "unknown block_id")
              ELSE LET next_text == DeleteArm(b[idx].text, op) IN
                   IF IsNone(next_text) THEN StepErr(b, "delete occurrence out of range")
                   ELSE StepOk([b EXCEPT ![idx].text = Unwrap(next_text)])
    [] op.op = "insert_after" ->
         IF IsNone(op.text) THEN StepErr(b, "ops insert_after missing content")
         ELSE LET anchor_idx == find_block_index(b, op.block_id) IN
              IF anchor_idx = 0 THEN StepErr(b, "unknown block_id")
              ELSE StepOk(InsertAt(b, anchor_idx + 1,
                                   Block(make_insert_id_editpacket(b, op.block_id),
                                         b[anchor_idx].kind_code, EmptyHash,
                                         Unwrap(op.text))))
    [] op.op = "suggest" -> StepOk(b)
    [] OTHER -> IF noarm = "skip" THEN StepOk(b) ELSE StepErr(b, "no match arm")

\* one iteration of the op loop of apply_patch_against_document
ApplyOpDocument(blocks, op, noarm) ==
  CASE op.op = "replace" ->
         IF IsNone(op.before) THEN StepErr(blocks, "ops replace missing before")
         ELSE IF IsNone(op.after) THEN StepErr(blocks, "ops replace missing after")
         ELSE LET idx == find_doc_block_index(blocks, op.block_id) IN
              IF idx = 0 THEN StepErr(blocks, "unknown block_id")
              ELSE LET next_text == ReplaceArm(blocks[idx].text, op) IN
                   IF IsNone(next_text)
                   THEN StepErr(blocks, IF IsIndex(Unwrap(op.occurrence))
                                        THEN "replace occurrence out of range"
                                        ELSE "replace occurrence must be an integer")
                   ELSE StepOk([blocks EXCEPT ![idx].text = Unwrap(next_text)])
    [] op.op = "delete" ->
         IF IsNone(op.before) THEN StepErr(blocks, "ops delete missing before")
         ELSE LET idx == find_doc_block_index(blocks, op.block_id) IN
              IF idx = 0 THEN StepErr(blocks, "unknown block_id")
              ELSE LET next_text == DeleteArm(blocks[idx].text, op) IN
                   IF IsNone(next_text) THEN StepErr(blocks, "delete occurrence out of range")
                   ELSE StepOk([blocks EXCEPT ![idx].text = Unwrap(next_text)])
    [] op.op = "insert_after" ->
         IF IsNone(op.text) THEN StepErr(blocks, "ops insert_after missing content")
         ELSE LET anchor_idx == find_doc_block_index(blocks, op.block_id) IN
              IF anchor_idx = 0 THEN StepErr(blocks, "unknown block_id")
              ELSE StepOk(InsertAt(blocks, anchor_idx + 1,
                                   Block(make_insert_id_doc(blocks, op.block_id),
                                         blocks[anchor_idx].kind_code, EmptyHash,
                                         Unwrap(op.text))))
    [] op.op = "suggest" -> StepOk(blocks)
    [] OTHER -> IF noarm = "skip" THEN StepOk(blocks) ELSE StepErr(blocks, "no match arm")

\* `for op in &patch.ops` on the working copy `out`; `at` is the failing op (1-based)
RECURSIVE ApplyOpsEditPacket(_, _, _, _)
ApplyOpsEditPacket(b, ops, k, noarm) ==
  IF k > Len(ops) THEN [ok |-> TRUE, b |-> b, at |-> 0, err |-> ""]
  ELSE LET r == ApplyOpEditPacket(b, ops[k], noarm) IN
       IF ~r.ok THEN [ok |-> FALSE, b |-> r.b, at |-> k, err |-> r.err]
       ELSE ApplyOpsEditPacket(r.b, ops, k + 1, noarm)

RECURSIVE ApplyOpsDocument(_, _, _, _)
ApplyOpsDocument(blocks, ops, k, noarm) ==
  IF k > Len(ops) THEN [ok |-> TRUE, b |-> blocks, at |-> 0, err |-> ""]
  ELSE LET r == ApplyOpDocument(blocks, ops[k], noarm) IN
       IF ~r.ok THEN [ok |-> FALSE, b |-> r.b, at |-> k, err |-> r.err]
       ELSE ApplyOpsDocument(r.b, ops, k + 1, noarm)

\* Result<T, String> of the appliers.  Err carries a message only: the working copy
\* is dropped.  stage tells which statement returned.
ApplyOk(value) ==
  [ok |-> TRUE, stage |-> "done", diag |-> VOk, at |-> 0, err |-> "", out |-> Some(value)]

\* an applier whose failure hands back the working copy as it stands
ApplyErrPartial(stage, diag, at, err, working_copy) ==
  [ok |-> FALSE, stage |-> stage, diag |-> diag, at |-> at, err |-> err,
   out |-> Some(working_copy)]

ApplyErr(stage, diag, at, err, working_copy) ==
  [ok |-> FALSE, stage |-> stage, diag |-> diag, at |-> at, err |-> err, out |-> None]

\* an applier that returns the working copy without re-establishing its hashes
recompute_edit_packet_hashes_skipped(packet, algo) == packet

recompute_edit_packet_hashes(packet, algo) ==
  LET bs == RehashBlocks(algo, packet.b) IN
  [packet EXCEPT !.ha = algo, !.b = bs, !.h = Unwrap(hash_hex(algo, PagePayload(bs)))]

apply_patch_against_edit_packet_with_options(packet, patch, opts, order, noarm) ==
  LET v == validate_patch_against_edit_packet_with_diagnostics(packet, patch, opts, order)
      algo == packet.ha
  IN
  IF ~v.ok THEN ApplyErr("validate", v, 0, v.message, packet.b)
  ELSE IF IsNone(hash_hex(algo, <<>>))
  THEN ApplyErr("algorithm", VOk, 0, "unsupported hash algorithm", packet.b)
  ELSE LET r == ApplyOpsEditPacket(packet.b, patch.ops, 1, noarm) IN
       IF ~r.ok THEN ApplyErr("apply", VOk, r.at, r.err, r.b)
       ELSE ApplyOk(recompute_edit_packet_hashes([packet EXCEPT !.b = r.b], algo))

apply_patch_against_edit_packet(packet, patch, order, noarm) ==
  apply_patch_against_edit_packet_with_options(packet, patch, DefaultOptions, order, noarm)

\* out.recompute_hashes() panics on an unsupported algorithm: stage "panic"
apply_patch_against_document(doc, patch, order, noarm) ==
  LET v == validate_patch(doc, patch, order) IN
  IF ~v.ok THEN ApplyErr("validate", v, 0, v.message, doc.blocks)
  ELSE LET r == ApplyOpsDocument(doc.blocks, patch.ops, 1, noarm) IN
       IF ~r.ok THEN ApplyErr("apply", VOk, r.at, r.err, r.b)
       ELSE LET h == try_recompute_hashes([doc EXCEPT !.blocks = r.b]) IN
            IF ~h.ok THEN ApplyErr("panic", VOk, 0, "supported hash_algorithm", r.b)
            ELSE ApplyOk(h.doc)

\* validates under opts, then runs apply_patch_against_document, which validates again
\* under the default options: two scans of the grouping map, order and order2
apply_patch_against_document_with_options(doc, patch, opts, order, order2, noarm) ==
  LET v == validate_patch_with_diagnostics(doc, patch, opts, order) IN
  IF ~v.ok THEN ApplyErr("validate", v, 0, v.message, doc.blocks)
  ELSE apply_patch_against_document(doc, patch, order2, noarm)

\* ------------------------------------------------- canonicalization of ops
RankedOps == {"delete", "replace", "insert_after", "suggest"}

op_rank(op) ==
  CASE op = "delete" -> 0
    [] op = "replace" -> 1
    [] op = "insert_after" -> 2
    [] op = "suggest" -> 3

\* i64 ranks are pairs <<tier, n>> compared lexicographically: <<0, n>> is the number n
\* (a u32 or a block position), <<1, 0>> is i64::MAX - 1 and <<2, 0>> is i64::MAX
RankCmp(a, b) ==
  IF a[1] # b[1] THEN (IF a[1] < b[1] THEN -1 ELSE 1)
  ELSE IF a[2] < b[2] THEN -1 ELSE IF a[2] > b[2] THEN 1 ELSE 0

occurrence_rank(o) ==
  IF IsNone(o) THEN <<2, 0>>
  ELSE IF IsIndex(Unwrap(o)) THEN <<0, Unwrap(o)[2]>>
  ELSE IF Unwrap(o) = LegacyFirst THEN <<0, 1>>
  ELSE <<1, 0>>

UnwrapOrDefault(o, default) == IF IsSome(o) THEN Unwrap(o) ELSE default

\* order: Some(block_id -> position) from an edit packet, or None
CanonicalKey(op, order) ==
  [block_pos |-> IF IsSome(order) /\ op.block_id \in DOMAIN Unwrap(order)
                 THEN <<0, Unwrap(order)[op.block_id]>> ELSE <<2, 0>>,
   block_id |-> op.block_id,
   op_rank |-> op_rank(op.op),
   before |-> UnwrapOrDefault(op.before, <<>>),
   after |-> UnwrapOrDefault(op.after, <<>>),
   insert_new_block_id |-> UnwrapOrDefault(op.new_block_id, <<>>),
   insert_kind_code |-> UnwrapOrDefault(op.kind_code, 0),
   insert_text |-> UnwrapOrDefault(op.text, <<>>),
   message |-> UnwrapOrDefault(op.message, <<>>),
   occurrence_rank |-> occurrence_rank(op.occurrence)]

IntCmp(a, b) == IF a < b THEN -1 ELSE IF a > b THEN 1 ELSE 0

Then(c, d) == IF c # 0 THEN c ELSE d

\* Ord for CanonicalKey
KeyCmp(a, b) ==
  Then(RankCmp(a.block_pos, b.block_pos),
  Then(StrCmp(a.block_id, b.block_id),
  Then(IntCmp(a.op_rank, b.op_rank),
  Then(StrCmp(a.before, b.before),
  Then(StrCmp(a.after, b.after),
  Then(StrCmp(a.insert_new_block_id, b.insert_new_block_id),
  Then(IntCmp(a.insert_kind_code, b.insert_kind_code),
  Then(StrCmp(a.insert_text, b.insert_text),
  Then(StrCmp(a.message, b.message),
       RankCmp(a.occurrence_rank, b.occurrence_rank))))))))))

\* a comparator that breaks ties of the key by the later index first
OrderingCmpLaterFirst(keys, ai, bi) == Then(KeyCmp(keys[ai], keys[bi]), IntCmp(bi, ai))

\* the comparator given to sort_by over (index, key) pairs: the key, then the index
OrderingCmp(keys, ai, bi) == Then(KeyCmp(keys[ai], keys[bi]), IntCmp(ai, bi))

\* the keys are computed once per op, as in the orderings vector; sort_by under a total
\* order: old index i lands after the indices that compare below it
canonicalize_ops_inner(ops, order) ==
  LET n == Len(ops)
      Sorted(keys) ==
        [p \in 1..n |->
           ops[CHOOSE i \in 1..n :
                 Cardinality({j \in 1..n : OrderingCmp(keys, j, i) < 0}) + 1 = p]]
  IN CHOOSE r \in {Sorted(keys) : keys \in {[i \in 1..n |-> CanonicalKey(ops[i], order)]}} :
       TRUE

\* adjacent equal ops of a sorted list collapsed into one
RECURSIVE Dedup(_)
Dedup(s) ==
  IF Len(s) <= 1 THEN s
  ELSE IF s[1] = s[2] THEN Dedup(Tail(s)) ELSE <<s[1]>> \o Dedup(Tail(s))

\* a canonicalization that sorts and then drops repeated ops
canonicalize_patch_ops_dedup(patch) ==
  [patch EXCEPT !.ops = Dedup(canonicalize_ops_inner(patch.ops, None))]

canonicalize_patch_ops(patch) == [patch EXCEPT !.ops = canonicalize_ops_inner(patch.ops, None)]

\* idx: block id -> position; a later duplicate id overwrites an earlier one
PacketIndex(packet) ==
  [id \in {packet.b[i].id : i \in 1..Len(packet.b)} |->
     (CHOOSE i \in 1..Len(packet.b) :
        /\ packet.b[i].id = id
        /\ \A j \in 1..Len(packet.b) : packet.b[j].id = id => j <= i) - 1]

canonicalize_patch_ops_against_edit_packet(packet, patch) ==
  [patch EXCEPT !.ops = canonicalize_ops_inner(patch.ops, Some(PacketIndex(packet)))]

\* ------------------------------------------------------------------ inputs
Str8 == <<"a", "a", "a", "a", "a", "a", "a", "b">>

\* "aaaaaaab aaaaaaab": Str8 twice, Mid8 once
TextTwice == Str8 \o <<" ">> \o Str8

Mid8 == <<"a", "a", "a", "a", "b", " ", "a", "a">>

\* decomposed e + U+0301 in the stored text, precomposed U+00E9 in the needle
TextDecomposed == <<"e", "'", "a", "a", "a", "a", "a", "a", "b", " ", "\r", "\n">>

Composed8 == <<"E", "a", "a", "a", "a", "a", "a", "b">>

IdP == <<"p">>

IdQ == <<"q">>

IdPIns == <<"p", "_ins">>

IdN == <<"n">>

IdZ == <<"z">>

KindCore == 2

KindBoilerplate == 25

\* codebook ranges: the canonical kindCodes are 0..UiChromeEnd and KindUnknown
UiChromeEnd == 59

KindUnknown == 99

\* a stored hash that was computed from nothing ("pagehash123")
StaleHash == <<"X", "x", <<>>>>

\* block q precedes block p: position order and lexical id order differ
RawBlocks1 ==
  <<Block(IdQ, KindBoilerplate, StaleHash, TextDecomposed),
    Block(IdP, KindCore, StaleHash, TextTwice)>>

RawBlocks2 ==
  <<Block(IdP, KindCore, StaleHash, TextTwice),
    Block(IdPIns, KindCore, StaleHash, TextDecomposed)>>

\* documents as parsed (stored hashes not established, algorithm as written)
RawDocs ==
  {Document(StaleHash, "XXH64", RawBlocks1),
   Document(StaleHash, "md5", RawBlocks1)}

EnvelopeDocs == RawDocs \cup {Document(StaleHash, "xxh64", RawBlocks1)}

\* documents after recompute_hashes
EstablishedDocs ==
  {try_recompute_hashes(Document(StaleHash, a, bs)).doc :
     a \in {"xxh64"}, bs \in {RawBlocks1, RawBlocks2}}

SubstringOp(op, block_id, before, after, occurrence) ==
  PatchOpV1(op, block_id, Some(before), after, occurrence, None, None, None, None)

InsertOp(op, block_id, new_block_id, kind_code, text) ==
  PatchOpV1(op, block_id, None, None, None, Some(new_block_id), Some(kind_code),
            Some(text), None)

BlockOp(op, block_id, text) ==
  PatchOpV1(op, block_id, None, None, None, None, None, text, None)

SuggestOp(block_id, message) ==
  PatchOpV1("suggest", block_id, None, None, None, None, None, None, Some(message))

OpSet ==
  {SubstringOp("replace", IdP, Mid8, Some(<<"z">>), None),
   SubstringOp("delete", IdP, Str8, None, Some(Index(1))),
   SubstringOp("delete", IdP, Str8, None, Some(Index(2))),
   SubstringOp("replace", IdQ, Composed8, Some(<<"z">>), None),
   InsertOp("insert_after", IdP, IdN, KindBoilerplate, <<"b">>)}

OpLists == UNION {[1..n -> OpSet] : n \in 0..MaxOps}

\* further op lists: unknown block, suggest, an op the applier has no arm for, a block
\* deleted twice, a `before` that matches twice without an occurrence, a block replaced,
\* deleted and edited, and two groups that each conflict
ExtraLists ==
  {<<SubstringOp("replace", IdZ, Str8, Some(<<"z">>), None)>>,
   <<SuggestOp(IdQ, <<"a">>)>>,
   <<BlockOp("delete_block", IdQ, None)>>,
   <<BlockOp("delete_block", IdP, None), BlockOp("delete_block", IdP, None)>>,
   <<SubstringOp("delete", IdP, Str8, None, None)>>,
   <<SubstringOp("replace", IdP, Mid8, Some(<<"z">>), None),
     SubstringOp("replace", IdP, Str8, Some(<<"z">>), None)>>,
   <<BlockOp("replace_block", IdP, Some(<<"b">>)),
     BlockOp("delete_block", IdP, None),
     SubstringOp("delete", IdP, Str8, None, Some(Index(1)))>>,
   <<BlockOp("delete_block", IdP, None),
     SubstringOp("delete", IdP, Str8, None, Some(Index(1))),
     BlockOp("replace_block", IdQ, Some(<<"b">>)),
     SubstringOp("replace", IdQ, Composed8, Some(<<"z">>), None)>>}

\* seven codepoints that occur in block p
Short7 == <<"a", "a", "a", "a", "a", "a", "b">>

\* eight codepoints as written, seven in NFC form; occurs in block q
ShortDecomposed == <<"e", "'", "a", "a", "a", "a", "a", "a">>

\* seven codepoints that occur in no block
Absent7 == <<"z", "z", "z", "z", "z", "z", "z">>

\* seven blanks
Blank7 == <<" ", " ", " ", " ", " ", " ", " ">>

\* one-op lists whose `before` is one codepoint short of the default min_before_len
ShortBeforeLists ==
  {<<SubstringOp("delete", IdP, Short7, None, Some(Index(1)))>>,
   <<SubstringOp("replace", IdQ, ShortDecomposed, Some(<<"z">>), None)>>,
   <<SubstringOp("delete", IdP, Absent7, None, None)>>,
   <<SubstringOp("delete", IdP, Blank7, None, None)>>}

\* one-op and two-op delete lists under the legacy selectors "first" and "all"
LegacySelectorLists ==
  {<<SubstringOp("delete", IdP, Str8, None, Some(LegacyFirst))>>,
   <<SubstringOp("delete", IdP, Str8, None, Some(LegacyAll))>>,
   <<SubstringOp("delete", IdQ, Composed8, None, Some(LegacyFirst))>>,
   <<SubstringOp("delete", IdP, Mid8, None, Some(LegacyFirst)),
     SubstringOp("delete", IdP, Str8, None, Some(LegacyAll))>>}

\* two deletes whose keys tie (occurrence "first" and occurrence 1 both rank 1), in both
\* orders, behind a replace that sorts after them
TieLists ==
  {<<SubstringOp("replace", IdP, Mid8, Some(<<"z">>), None),
     SubstringOp("delete", IdP, Str8, None, Some(LegacyFirst)),
     SubstringOp("delete", IdP, Str8, None, Some(Index(1)))>>,
   <<SubstringOp("replace", IdP, Mid8, Some(<<"z">>), None),
     SubstringOp("delete", IdP, Str8, None, Some(Index(1))),
     SubstringOp("delete", IdP, Str8, None, Some(LegacyFirst))>>}

WrongHash == <<"H", "xxh64", <<"z">>>>

StrictBindingOptions == [DefaultOptions EXCEPT !.strict_page_hash_binding = TRUE]

\* envelope scenarios: every binding of a version 1 patch, and an unsupported version,
\* against one op list
EnvelopeInputsOf(d) ==
  {[doc |-> d, patch |-> PatchV1(1, h, ha, <<SuggestOp(IdQ, <<"a">>)>>), opts |-> o] :
     h \in {None, Some(d.page_hash), Some(WrongHash)},
     ha \in {None, Some("xxh64"), Some("sha256"), Some(" ")},
     o \in {DefaultOptions, StrictBindingOptions,
            [DefaultOptions EXCEPT !.expected_page_hash = Some(d.page_hash)],
            [StrictBindingOptions EXCEPT !.expected_page_hash = Some(d.page_hash)]}}
  \cup
  {[doc |-> d, patch |-> PatchV1(2, h, None, <<SuggestOp(IdQ, <<"a">>)>>),
    opts |-> DefaultOptions] : h \in {Some(d.page_hash), Some(WrongHash)}}

EnvelopeInputs == UNION {EnvelopeInputsOf(d) : d \in EnvelopeDocs}

\* strict kind-code enforcement under the default policy
StrictKind == [DefaultOptions EXCEPT !.strict_kind_code = TRUE]

\* strict kind codes without the suggest exemption
StrictNoSuggest ==
  [StrictKind EXCEPT !.kind_code_policy =
     KindCodePolicy(<<<<DefaultAllowLo, DefaultAllowHi>>>>, FALSE)]

\* strict kind codes under custom ranges
StrictCustom ==
  [StrictKind EXCEPT !.kind_code_policy = KindCodePolicy(<<<<20, 39>>>>, TRUE)]

\* one-op lists on a block inside and a block outside the default ranges
PolicyLists ==
  {<<SuggestOp(IdP, <<"a">>)>>,
   <<SuggestOp(IdQ, <<"a">>)>>,
   <<SubstringOp("replace", IdP, Mid8, Some(<<"z">>), None)>>,
   <<SubstringOp("replace", IdQ, Composed8, Some(<<"z">>), None)>>}

\* a min_before_len one below the default
LowMin == [DefaultOptions EXCEPT !.min_before_len = DefaultMinBeforeLen - 1]

\* every op list under the default options, the one-op lists under strict kind codes,
\* the short `before` lists under the default and under the lowered min_before_len, the
\* policy lists under the two custom policies
OpInputsOf(d) ==
  {[doc |-> d, patch |-> PatchV1(1, Some(d.page_hash), Some("xxh64"), ops),
    opts |-> DefaultOptions] :
     ops \in OpLists \cup ExtraLists \cup ShortBeforeLists \cup LegacySelectorLists
             \cup TieLists}
  \cup
  {[doc |-> d, patch |-> PatchV1(1, Some(d.page_hash), Some("xxh64"), ops),
    opts |-> LowMin] : ops \in ShortBeforeLists}
  \cup
  {[doc |-> d, patch |-> PatchV1(1, Some(d.page_hash), Some("xxh64"), ops),
    opts |-> o] : ops \in PolicyLists, o \in {StrictNoSuggest, StrictCustom}}
  \cup
  {[doc |-> d, patch |-> PatchV1(1, Some(d.page_hash), Some("xxh64"), ops),
    opts |-> StrictKind] : ops \in {l \in OpLists \cup ExtraLists : Len(l) = 1}}

OpInputs == UNION {OpInputsOf(d) : d \in EstablishedDocs}

\* a document whose only block has a kindCode outside the codebook's ranges
OutOfRangeDoc ==
  try_recompute_hashes(
    Document(StaleHash, "xxh64", <<Block(IdP, UiChromeEnd + 1, StaleHash, TextTwice)>>)).doc

\* an edit and a suggest on that block, under the default and the strict options
OutOfRangeInputs ==
  {[doc |-> OutOfRangeDoc,
    patch |-> PatchV1(1, Some(OutOfRangeDoc.page_hash), Some("xxh64"), ops),
    opts |-> o] :
     ops \in {<<SubstringOp("replace", IdP, Mid8, Some(<<"z">>), None)>>,
              <<SuggestOp(IdP, <<"a">>)>>},
     o \in {DefaultOptions, StrictKind}}

Inputs == EnvelopeInputs \cup OpInputs \cup OutOfRangeInputs

\* the versions the edit packet of an input is given: version 1, and for the patches of an
\* unsupported version and the unbound patches under the default options also version 2
PacketVersionsOf(i) ==
  IF i.patch.v # 1 \/ (IsNone(i.patch.h) /\ IsNone(i.patch.ha) /\ i.opts = DefaultOptions)
  THEN {1, 2} ELSE {1}

\* ------------------------------------------------------------------- state
VARIABLES doc, pkt, patch, opts, last

vars == <<doc, pkt, patch, opts, last>>

\* a finished call: its name, the target, patch and options it ran with, its result
Call(name, target, p, o, res) ==
  [call |-> name, target |-> target, patch |-> p, opts |-> o, res |-> res]

NoCall == Call("none", <<>>, PatchV1(1, None, None, <<>>), DefaultOptions, VOk)

Record(c) == last' = c

Init ==
  \E i \in Inputs :
    /\ doc = i.doc
    /\ \E pv \in PacketVersionsOf(i) : pkt = [from_document(i.doc, None) EXCEPT !.v = pv]
    /\ patch = i.patch
    /\ opts = i.opts
    /\ last = NoCall

Orders == IterationOrders(SeenKeys(patch.ops))

\* the arms the op loop lacks are only consulted for ops that need them
NoArmChoices ==
  IF \E i \in 1..Len(patch.ops) : patch.ops[i].op \notin HandledOps
  THEN NoArmOutcomes ELSE {"skip"}

ValidatePatch ==
  \E order \in Orders :
    /\ Record(Call("validate_doc", doc, patch, opts,
                   validate_patch_with_diagnostics(doc, patch, opts, order)))
    /\ UNCHANGED <<doc, pkt, patch, opts>>

ValidatePatchAgainstEditPacket ==
  \E order \in Orders :
    /\ Record(Call("validate_pkt", pkt, patch, opts,
                   validate_patch_against_edit_packet_with_diagnostics(pkt, patch, opts, order)))
    /\ UNCHANGED <<doc, pkt, patch, opts>>

ApplyPatchAgainstDocument ==
  \E order \in Orders, noarm \in NoArmChoices :
    /\ Record(Call("apply_doc", doc, patch, DefaultOptions,
                   apply_patch_against_document(doc, patch, order, noarm)))
    /\ UNCHANGED <<doc, pkt, patch, opts>>

ApplyPatchAgainstDocumentWithOptions ==
  \E order \in Orders, order2 \in Orders, noarm \in NoArmChoices :
    /\ Record(Call("apply_doc_opts", doc, patch, opts,
                   apply_patch_against_document_with_options(doc, patch, opts, order, order2,
                                                             noarm)))
    /\ UNCHANGED <<doc, pkt, patch, opts>>

ApplyPatchAgainstEditPacket ==
  \E order \in Orders, noarm \in NoArmChoices :
    /\ Record(Call("apply_pkt", pkt, patch, opts,
                   apply_patch_against_edit_packet_with_options(pkt, patch, opts, order, noarm)))
    /\ UNCHANGED <<doc, pkt, patch, opts>>

\* canonicalize_patch_ops(&mut patch): in place
CanonicalizePatchOps ==
  /\ \A i \in 1..Len(patch.ops) : patch.ops[i].op \in RankedOps
  /\ patch' = canonicalize_patch_ops(patch)
  /\ UNCHANGED <<doc, pkt, opts, last>>

\* canonicalize_patch_ops_against_edit_packet(&packet, &mut patch): in place
CanonicalizePatchOpsAgainstEditPacket ==
  /\ \A i \in 1..Len(patch.ops) : patch.ops[i].op \in RankedOps
  /\ patch' = canonicalize_patch_ops_against_edit_packet(pkt, patch)
  /\ UNCHANGED <<doc, pkt, opts, last>>

\* doc.recompute_hashes(): in place; the call panics on an unsupported algorithm
RecomputeHashes ==
  /\ try_recompute_hashes(doc).ok
  /\ doc' = try_recompute_hashes(doc).doc
  /\ UNCHANGED <<pkt, patch, opts, last>>

\* from_document(&doc, tid)
FromDocument ==
  /\ pkt' = from_document(doc, pkt.tid)
  /\ UNCHANGED <<doc, patch, opts, last>>

Next ==
  \/ ValidatePatch
  \/ ValidatePatchAgainstEditPacket
  \/ ApplyPatchAgainstDocument
  \/ ApplyPatchAgainstDocumentWithOptions
  \/ ApplyPatchAgainstEditPacket
  \/ CanonicalizePatchOps
  \/ CanonicalizePatchOpsAgainstEditPacket
  \/ RecomputeHashes
  \/ FromDocument

Spec == Init /\ [][Next]_vars

\* ------------------------------------- the occurrence helpers called directly
MaxTextLen == 4

MaxNeedleLen == 2

MaxOccurrence == 3

\* texts and needles in NFC form
Texts == UNION {[1..n -> {"a", "b"}] : n \in 0..MaxTextLen}

Needles == UNION {[1..n -> {"a", "b"}] : n \in 1..MaxNeedleLen}

\* the arguments of a call that has not run yet
Args(t, b, a, n) == [call |-> "none", t |-> t, b |-> b, a |-> a, n |-> n, res |-> None]

OccurrenceInit ==
  /\ doc = OutOfRangeDoc
  /\ pkt = from_document(OutOfRangeDoc, None)
  /\ patch = PatchV1(1, None, None, <<>>)
  /\ opts = DefaultOptions
  /\ \E t \in Texts, b \in Needles, n \in 0..MaxOccurrence : last = Args(t, b, <<"z">>, n)

\* replace_nth_non_overlapping(t, b, a, n)
ReplaceNthNonOverlapping ==
  /\ last.call = "none"
  /\ last' = [last EXCEPT !.call = "replace_nth",
                          !.res = replace_nth_non_overlapping(last.t, last.b, last.a, last.n)]
  /\ UNCHANGED <<doc, pkt, patch, opts>>

\* delete_nth_non_overlapping(t, b, n)
DeleteNthNonOverlapping ==
  /\ last.call = "none"
  /\ last' = [last EXCEPT !.call = "delete_nth", !.a = <<>>,
                          !.res = delete_nth_non_overlapping(last.t, last.b, last.n)]
  /\ UNCHANGED <<doc, pkt, patch, opts>>

OccurrenceNext ==
  \/ ReplaceNthNonOverlapping
  \/ DeleteNthNonOverlapping

OccurrenceSpec == OccurrenceInit /\ [][OccurrenceNext]_vars


\* ------------------------------------------------------------------ claims
\* the last call was `name`
Ran(name) == last.call = name

HaPasses(p, d, o) ==
  IF IsNone(p.ha) THEN ~o.strict_page_hash_binding
  ELSE /\ TrimLower(Unwrap(p.ha)) # ""
       /\ TrimLower(Unwrap(p.ha)) = TrimLower(d.hash_algorithm)

ValidatorAnswers ==
  LET orders == IterationOrders(SeenKeys(last.patch.ops)) IN
  IF Ran("apply_pkt")
  THEN {validate_patch_against_edit_packet_with_diagnostics(last.target, last.patch,
                                                            last.opts, order) :
          order \in orders}
  ELSE {validate_patch_with_diagnostics(last.target, last.patch, last.opts, order) :
          order \in orders}

AppliedOk == Ran("apply_doc") \/ Ran("apply_doc_opts") \/ Ran("apply_pkt")

\* C2: when an applier (document, document with options, edit packet) returns Ok for
\* (D, P, O), the validator returns Ok for the same (D, P, O).
C2_ApplyOkImpliesValid ==
  (AppliedOk /\ last.res.ok) => \A v \in ValidatorAnswers : v.ok

\* a document applier run under strict kind-code options that returned an edited document
C2_Witness ==
  /\ Ran("apply_doc_opts")
  /\ last.opts.strict_kind_code
  /\ last.res.ok
  /\ Len(last.patch.ops) = 1
  /\ Unwrap(last.res.out).blocks # last.target.blocks

\* the hash invariants of a block list under algo: every text_hash is the hash of the
\* canonicalized text, the page hash is the hash of the rows in block order
HashesEstablished(algo, page_hash, blocks) ==
  /\ \A i \in 1..Len(blocks) :
       Some(blocks[i].text_hash) = hash_canon_hex(algo, blocks[i].text)
  /\ Some(page_hash) = hash_hex(algo, PagePayload(blocks))

\* C3: the output of every successful apply (document or edit packet) satisfies the hash
\* invariants under its own algorithm, and recomputing its hashes changes nothing.
C3_OutputHashesEstablished ==
  /\ ((Ran("apply_doc") \/ Ran("apply_doc_opts")) /\ last.res.ok) =>
       LET out == Unwrap(last.res.out) IN
       /\ HashesEstablished(out.hash_algorithm, out.page_hash, out.blocks)
       /\ try_recompute_hashes(out) = [ok |-> TRUE, doc |-> out]
  /\ (Ran("apply_pkt") /\ last.res.ok) =>
       LET out == Unwrap(last.res.out) IN
       /\ HashesEstablished(out.ha, out.h, out.b)
       /\ recompute_edit_packet_hashes(out, out.ha) = out

\* an edit-packet apply that inserted a block and edited a text, so that the page hash
\* and a text hash of the output differ from the input's
C3_Witness ==
  /\ Ran("apply_pkt")
  /\ last.res.ok
  /\ Len(Unwrap(last.res.out).b) > Len(last.target.b)
  /\ Unwrap(last.res.out).h # last.target.h
  /\ \E i \in 1..Len(last.target.b) : Unwrap(last.res.out).b[i].text # last.target.b[i].text

\* C4: a step of an applier that fails, at validation or at the k-th op, returns no value
\* and leaves the caller's document and edit packet as they were.
C4_AllOrNothing ==
  [][(last' # last /\ last'.call \in {"apply_doc", "apply_doc_opts", "apply_pkt"}
        /\ ~last'.res.ok)
     => /\ last'.res.out = None
        /\ doc' = doc
        /\ pkt' = pkt
        /\ last'.target = IF last'.call = "apply_pkt" THEN pkt' ELSE doc']_vars

\* an apply that failed at its second op (occurrence out of range once the first op had
\* removed a match) after its patch passed validation
C4_Witness ==
  /\ AppliedOk
  /\ ~last.res.ok
  /\ last.res.stage = "apply"
  /\ last.res.at = 2
  /\ last.res.out = None

\* blocks of a document or an edit packet
BlocksOf(target) == IF "b" \in DOMAIN target THEN target.b ELSE target.blocks

DistinctIds(blocks) ==
  \A i, j \in 1..Len(blocks) : blocks[i].id = blocks[j].id => i = j

\* C5: a successful apply on a target with pairwise distinct block ids returns pairwise
\* distinct block ids, also after several inserts at one anchor or with one new_block_id.
C5_DistinctBlockIds ==
  (AppliedOk /\ last.res.ok /\ DistinctIds(BlocksOf(last.target)))
  => DistinctIds(BlocksOf(Unwrap(last.res.out)))

\* two inserts at one anchor carrying one new_block_id, applied to an edit packet that
\* already holds the first id the applier would mint
C5_Witness ==
  /\ Ran("apply_pkt")
  /\ last.res.ok
  /\ Len(last.patch.ops) = 2
  /\ \A i \in 1..2 : /\ last.patch.ops[i].op = "insert_after"
                     /\ last.patch.ops[i].block_id = IdP
                     /\ last.patch.ops[i].new_block_id = Some(IdN)
  /\ \E i \in 1..Len(last.target.b) : last.target.b[i].id = IdPIns
  /\ Len(Unwrap(last.res.out).b) = Len(last.target.b) + 2

\* C6: two runs of validate_patch_with_diagnostics on identical (document, patch,
\* options) return the identical result: code, op_index, block_id and message.
C6_ValidationDeterministic ==
  [][(last.call = "validate_doc" /\ last'.call = "validate_doc"
        /\ last'.target = last.target
        /\ last'.patch = last.patch
        /\ last'.opts = last.opts)
     => last'.res = last.res]_vars

\* the document D the last call ran on has established hashes
TargetEstablished ==
  HashesEstablished(last.target.hash_algorithm, last.target.page_hash, last.target.blocks)

\* apply_patch_against_edit_packet on the projection of the last call's document,
\* one result per scan order and per outcome of an op the loop has no arm for
PacketResults ==
  {apply_patch_against_edit_packet(from_document(last.target, None), last.patch, order, noarm) :
     order \in IterationOrders(SeenKeys(last.patch.ops)), noarm \in NoArmOutcomes}

\* C7: for a document D with established hashes and a patch P both appliers accept,
\* from_document(apply_doc(D, P)) = apply_packet(from_document(D), P): same blocks,
\* same page hash.
C7_SurfacesAgree ==
  (Ran("apply_doc") /\ last.res.ok /\ TargetEstablished)
  => \A r \in PacketResults :
       r.ok => Unwrap(r.out) = from_document(Unwrap(last.res.out), None)

\* a document apply that inserted a block and edited a text, for a patch the edit-packet
\* applier accepts as well
C7_Witness ==
  /\ Ran("apply_doc")
  /\ last.res.ok
  /\ TargetEstablished
  /\ \E r \in PacketResults : r.ok
  /\ Len(Unwrap(last.res.out).blocks) > Len(last.target.blocks)
  /\ \E i \in 1..Len(last.target.blocks) :
       Unwrap(last.res.out).blocks[i].text # last.target.blocks[i].text

Occurrences(s, x) == Cardinality({i \in 1..Len(s) : s[i] = x})

\* t holds the ops of s, each as often as s does
IsPermutation(t, s) ==
  /\ Len(t) = Len(s)
  /\ \A i \in 1..Len(s) : Occurrences(t, s[i]) = Occurrences(s, s[i])

\* C8: each step that changes the op list (a canonicalization, without or with an edit
\* packet) leaves a permutation of the op list it was given (and the envelope as it was),
\* and canonicalizing its result again changes nothing.
C8_PermutationIdempotent ==
  [][patch' # patch =>
       /\ IsPermutation(patch'.ops, patch.ops)
       /\ [patch' EXCEPT !.ops = patch.ops] = patch
       /\ patch' = canonicalize_patch_ops(patch) => canonicalize_patch_ops(patch') = patch'
       /\ patch' = canonicalize_patch_ops_against_edit_packet(pkt, patch) =>
            canonicalize_patch_ops_against_edit_packet(pkt', patch') = patch']_vars

\* a patch whose two ops a canonicalization has swapped since the last call saw it
C8_Witness ==
  /\ last.call # "none"
  /\ Len(patch.ops) = 2
  /\ patch.ops # last.patch.ops
  /\ patch.ops[1] = last.patch.ops[2]
  /\ patch.ops[2] = last.patch.ops[1]

\* C9: applying canonicalize_patch_ops(P) produces the same document as applying P, for
\* every patch P the applier accepted.
C9_CanonicalizationPreservesApply ==
  (Ran("apply_doc") /\ last.res.ok
     /\ \A i \in 1..Len(last.patch.ops) : last.patch.ops[i].op \in RankedOps)
  => \A order \in IterationOrders(SeenKeys(last.patch.ops)) :
       apply_patch_against_document(last.target, canonicalize_patch_ops(last.patch),
                                    order, "skip") = last.res

\* the working copy of the last apply when its k-th op starts to execute
WorkingCopyAt(k) ==
  IF Ran("apply_pkt")
  THEN ApplyOpsEditPacket(last.target.b, SubSeq(last.patch.ops, 1, k - 1), 1, "skip")
  ELSE ApplyOpsDocument(last.target.blocks, SubSeq(last.patch.ops, 1, k - 1), 1, "skip")

\* C10: in an apply whose patch the validator accepted, every replace/delete op that
\* executes finds its `before` in the current text of its target block.
C10_BeforePresentAtExecution ==
  (AppliedOk /\ last.res.stage \in {"done", "apply"})
  => \A k \in 1..Len(last.patch.ops) :
       (last.patch.ops[k].op \in {"replace", "delete"} /\ WorkingCopyAt(k).ok)
       => LET b == WorkingCopyAt(k).b
              idx == find_block_index(b, last.patch.ops[k].block_id)
          IN /\ idx # 0
             /\ FindFrom(b[idx].text, Unwrap(last.patch.ops[k].before), 1) # 0

\* C11: apply_patch_against_document_with_options(D, P, O) is rejected at the validation
\* stage exactly when validate_patch_with_options(D, P, O) rejects.
C11_ApplierHonoursOptions ==
  Ran("apply_doc_opts")
  => ((~last.res.ok /\ last.res.stage = "validate") <=> \E v \in ValidatorAnswers : ~v.ok)

\* the target of the last call seen as a document
TargetDoc ==
  IF "b" \in DOMAIN last.target
  THEN Document(last.target.h, last.target.ha, last.target.b)
  ELSE last.target

\* the expected hash of the last validation: P.h, else O.expected_page_hash, else (against
\* an edit packet outside strict binding) the packet's h
ExpectedHash ==
  IF IsSome(last.patch.h) THEN last.patch.h
  ELSE IF IsSome(last.opts.expected_page_hash) THEN last.opts.expected_page_hash
  ELSE IF Ran("validate_pkt") /\ ~last.opts.strict_page_hash_binding THEN Some(TargetDoc.page_hash)
  ELSE None

\* the page hash computed from the target's current blocks, None under an unsupported
\* algorithm
ComputedPageHash ==
  LET r == try_recompute_hashes(TargetDoc) IN
  IF r.ok THEN Some(r.doc.page_hash) ELSE None

\* C12: a validation (against a document or an edit packet) accepts only if the page hash
\* computed from the target's current blocks equals the expected hash.
C12_ComputedPageHashBinds ==
  ((Ran("validate_doc") \/ Ran("validate_pkt")) /\ last.res.ok)
  => (IsSome(ComputedPageHash) /\ ComputedPageHash = ExpectedHash)

\* patch.ha does not stop the validation: it is not looked at, or names the document's
\* algorithm
AlgorithmPasses(p, d) ==
  \/ IsNone(p.h)
  \/ IsNone(p.ha)
  \/ /\ TrimLower(Unwrap(p.ha)) # ""
     /\ TrimLower(Unwrap(p.ha)) = TrimLower(d.hash_algorithm)

\* C13: in a validation of a version 1 patch against a document outside strict binding:
\* with neither P.h nor O.expected_page_hash the result is patch_page_hash_missing; with
\* both present and different it is patch_page_hash_mismatch; with exactly one present
\* (or both equal) that value is the expected hash the document's page hash is compared
\* with: the result is never patch_page_hash_missing, a document whose page hash differs
\* is rejected, with patch_page_hash_mismatch once the algorithm binding has passed.
C13_BindingResolution ==
  (Ran("validate_doc") /\ last.patch.v = 1 /\ ~last.opts.strict_page_hash_binding)
  => LET h == last.patch.h
         e == last.opts.expected_page_hash
         expected == IF IsSome(h) THEN h ELSE e
     IN IF IsNone(h) /\ IsNone(e)
        THEN ~last.res.ok /\ last.res.code = "patch_page_hash_missing"
        ELSE IF IsSome(h) /\ IsSome(e) /\ h # e
        THEN ~last.res.ok /\ last.res.code = "patch_page_hash_mismatch"
        ELSE /\ last.res.code # "patch_page_hash_missing"
             /\ Some(last.target.page_hash) # expected => ~last.res.ok
             /\ AlgorithmPasses(last.patch, last.target) =>
                  (last.res.code = "patch_page_hash_mismatch"
                     <=> Some(last.target.page_hash) # expected)

\* a patch without h validated under an expected_page_hash the document, whose hashes
\* were recomputed since, no longer has
C13_Witness ==
  /\ Ran("validate_doc")
  /\ last.patch.v = 1
  /\ IsNone(last.patch.h)
  /\ IsSome(last.opts.expected_page_hash)
  /\ ~last.opts.strict_page_hash_binding
  /\ Some(last.target.page_hash) # last.opts.expected_page_hash
  /\ last.res.code = "patch_page_hash_mismatch"

\* C14: under strict_page_hash_binding, a validation (against a document or an edit
\* packet) of a version 1 patch without h answers patch_page_hash_missing, one of a patch
\* with h and an absent or blank ha answers missing_field, whatever expected_page_hash
\* and the packet's h are; an accepted patch carries h and a non-blank ha.
C14_StrictBindingRequiresBoth ==
  ((Ran("validate_doc") \/ Ran("validate_pkt")) /\ last.patch.v = 1
     /\ last.opts.strict_page_hash_binding)
  => LET h == last.patch.h
         blank == IsNone(last.patch.ha) \/ TrimLower(Unwrap(last.patch.ha)) = ""
     IN /\ IsNone(h) => (~last.res.ok /\ last.res.code = "patch_page_hash_missing")
        /\ (IsSome(h) /\ blank) => (~last.res.ok /\ last.res.code = "missing_field")
        /\ last.res.ok => (IsSome(h) /\ ~blank)

\* a strict validation against an edit packet of a patch without h, with an
\* expected_page_hash equal to the packet's h at hand
C14_Witness ==
  /\ Ran("validate_pkt")
  /\ last.patch.v = 1
  /\ last.opts.strict_page_hash_binding
  /\ IsNone(last.patch.h)
  /\ last.opts.expected_page_hash = Some(last.target.h)
  /\ last.res.code = "patch_page_hash_missing"

\* the values patch.ha takes in the inputs
HaValues == {None, Some("xxh64"), Some("sha256"), Some(" ")}

\* C15: in a validation of a version 1 patch against a document, with P.h and P.ha
\* present and P.h not contradicted by expected_page_hash: a blank ha answers
\* missing_field, an ha that differs from the document's algorithm after trim and
\* lowercase answers hash_algorithm_mismatch, and an ha that agrees never does; with P.h
\* absent outside strict binding, the result is the one every other value of P.ha gives.
C15_AlgorithmBinding ==
  (Ran("validate_doc") /\ last.patch.v = 1)
  => LET p == last.patch
         d == last.target
         o == last.opts
     IN /\ (IsSome(p.h) /\ IsSome(p.ha)
              /\ (IsNone(o.expected_page_hash) \/ o.expected_page_hash = p.h))
           => IF TrimLower(Unwrap(p.ha)) = ""
              THEN ~last.res.ok /\ last.res.code = "missing_field"
              ELSE IF TrimLower(Unwrap(p.ha)) # TrimLower(d.hash_algorithm)
              THEN ~last.res.ok /\ last.res.code = "hash_algorithm_mismatch"
              ELSE last.res.code # "hash_algorithm_mismatch"
        /\ (IsNone(p.h) /\ ~o.strict_page_hash_binding)
           => \A ha \in HaValues :
                last.res \in {validate_patch_with_diagnostics(d, [p EXCEPT !.ha = ha], o, order) :
                                order \in IterationOrders(SeenKeys(p.ops))}

\* an accepted patch that names the document's algorithm in another case
C15_Witness ==
  /\ Ran("validate_doc")
  /\ last.patch.v = 1
  /\ IsSome(last.patch.h)
  /\ last.patch.ha = Some("xxh64")
  /\ last.target.hash_algorithm = "XXH64"
  /\ last.res.ok

\* the ops naming block id hold a delete_block and number more than one
DeleteBlockConflict(ops, id) ==
  /\ \E i \in 1..Len(ops) : ops[i].block_id = id /\ ops[i].op = "delete_block"
  /\ Cardinality({i \in 1..Len(ops) : ops[i].block_id = id}) > 1

\* the ops naming block id hold a replace_block and a replace or delete
ReplaceBlockConflict(ops, id) ==
  /\ \E i \in 1..Len(ops) : ops[i].block_id = id /\ ops[i].op = "replace_block"
  /\ \E i \in 1..Len(ops) : ops[i].block_id = id /\ ops[i].op \in {"replace", "delete"}

\* the first op naming block id whose type is in types, the first op naming id if none
FirstOfGroup(ops, id, types) ==
  LET g == {i \in 1..Len(ops) : ops[i].block_id = id}
      t == {i \in g : ops[i].op \in types}
      from == IF t = {} THEN g ELSE t
  IN CHOOSE i \in from : \A j \in from : i <= j

\* the op the diagnostic of the last call designates (1-based), 0 when it names none
DesignatedOp == IF IsSome(last.res.op_index) THEN Unwrap(last.res.op_index) + 1 ELSE 0

\* C16 as stated: for each group of ops sharing a block_id that holds a delete_block and
\* more than one op, validation fails with conflicting_operations at an op of that group
\* that is not delete_block; for each group holding replace_block and a replace or
\* delete, it fails with conflicting_operations at a replace/delete op of that group.
C16_ConflictAtOpOfEachGroup ==
  (Ran("validate_doc") /\ EnvelopeCheck(last.target, last.patch, last.opts).ok)
  => \A id \in SeenKeys(last.patch.ops) :
       LET ops == last.patch.ops
           i == DesignatedOp
       IN /\ DeleteBlockConflict(ops, id)
             => /\ ~last.res.ok /\ last.res.code = "conflicting_operations"
                /\ i \in 1..Len(ops) /\ ops[i].block_id = id /\ ops[i].op # "delete_block"
          /\ ReplaceBlockConflict(ops, id)
             => /\ ~last.res.ok /\ last.res.code = "conflicting_operations"
                /\ i \in 1..Len(ops) /\ ops[i].block_id = id
                /\ ops[i].op \in {"replace", "delete"}

\* C16: when a patch that passes the envelope checks has a conflicting group, validation
\* fails with conflicting_operations and designates one conflicting group G by block_id:
\* if G holds a delete_block, the first op of G that is not delete_block, or G's first op
\* when all are delete_block; otherwise the first replace/delete op of G.
C16_ConflictAtOpOfSomeGroup ==
  (Ran("validate_doc") /\ EnvelopeCheck(last.target, last.patch, last.opts).ok
     /\ \E id \in SeenKeys(last.patch.ops) :
          DeleteBlockConflict(last.patch.ops, id) \/ ReplaceBlockConflict(last.patch.ops, id))
  => /\ ~last.res.ok
     /\ last.res.code = "conflicting_operations"
     /\ \E id \in SeenKeys(last.patch.ops) :
          LET ops == last.patch.ops IN
          /\ last.res.block_id = Some(id)
          /\ IF DeleteBlockConflict(ops, id)
             THEN DesignatedOp = FirstOfGroup(ops, id, OpTypes \ {"delete_block"})
             ELSE /\ ReplaceBlockConflict(ops, id)
                  /\ DesignatedOp = FirstOfGroup(ops, id, {"replace", "delete"})

\* a patch deleting one block twice: the conflict is reported at a delete_block op
C16_Witness ==
  /\ Ran("validate_doc")
  /\ last.res.code = "conflicting_operations"
  /\ DesignatedOp = 1
  /\ Len(last.patch.ops) = 2
  /\ \A i \in 1..2 : last.patch.ops[i].op = "delete_block"

\* the last call is a document validation whose patch passed the envelope checks and
\* the conflict scan, so that its per-op loop ran
OpLoopRan ==
  /\ Ran("validate_doc")
  /\ EnvelopeCheck(last.target, last.patch, last.opts).ok
  /\ \A id \in SeenKeys(last.patch.ops) :
       ~DeleteBlockConflict(last.patch.ops, id) /\ ~ReplaceBlockConflict(last.patch.ops, id)

\* the block of the last call's document that op k names (0 if none)
TargetIndex(k) == FirstIndexFrom(last.target.blocks, last.patch.ops[k].block_id, 1)

\* op k of the last call is a replace/delete with its required fields, on a known block
\* the kind-code policy admits
SubstringOpReady(k) ==
  LET op == last.patch.ops[k] IN
  /\ op.op \in {"replace", "delete"}
  /\ IsSome(op.before)
  /\ op.op = "replace" => IsSome(op.after)
  /\ TargetIndex(k) # 0
  /\ enforce_kind_code(k, op.op, op.block_id,
                       last.target.blocks[TargetIndex(k)].kind_code, last.opts).ok

\* the NFC form of op k's `before`
BeforeNfc(k) == normalize_nfc(Unwrap(last.patch.ops[k].before))

\* the number of non-overlapping matches of op k's `before` in its block
MatchesOf(k) ==
  count_non_overlapping(last.target.blocks[TargetIndex(k)].text,
                        Unwrap(last.patch.ops[k].before))

C18_BoundaryAnyBefore ==
  OpLoopRan
  => \A k \in 1..Len(last.patch.ops) :
       SubstringOpReady(k)
       => /\ (Len(BeforeNfc(k)) = last.opts.min_before_len /\ DesignatedOp = k)
             => last.res.code # "before_too_short"
          /\ Len(BeforeNfc(k)) = last.opts.min_before_len - 1
             => /\ ~last.res.ok
                /\ DesignatedOp \in 1..k
                /\ DesignatedOp = k => last.res.code = "before_too_short"

\* C18: a replace/delete op whose `before` has exactly min_before_len codepoints in NFC
\* form is not rejected as too short; one with min_before_len - 1 codepoints is rejected,
\* with before_empty when its NFC form is blank and with before_too_short otherwise,
\* whether or not it occurs in the block.
C18_BoundaryNonBlankBefore ==
  OpLoopRan
  => \A k \in 1..Len(last.patch.ops) :
       SubstringOpReady(k)
       => /\ (Len(BeforeNfc(k)) = last.opts.min_before_len /\ DesignatedOp = k)
             => last.res.code # "before_too_short"
          /\ Len(BeforeNfc(k)) = last.opts.min_before_len - 1
             => /\ ~last.res.ok
                /\ DesignatedOp \in 1..k
                /\ DesignatedOp = k =>
                     last.res.code = IF TrimIsEmpty(BeforeNfc(k)) THEN "before_empty"
                                     ELSE "before_too_short"

\* a `before` one codepoint short of min_before_len that occurs in no block, reported as
\* too short
C18_Witness ==
  /\ OpLoopRan
  /\ Len(last.patch.ops) = 1
  /\ SubstringOpReady(1)
  /\ Len(BeforeNfc(1)) = last.opts.min_before_len - 1
  /\ MatchesOf(1) = 0
  /\ last.res.code = "before_too_short"

\* the kindCode of the block op k names lies in some allow_ranges interval
InAllowRanges(k) ==
  LET kc == last.target.blocks[TargetIndex(k)].kind_code
      ranges == last.opts.kind_code_policy.allow_ranges
  IN \E r \in 1..Len(ranges) : ranges[r][1] <= kc /\ kc <= ranges[r][2]

\* what the per-op loop of the last validation must do with op k under `passes`: a
\* failing op is rejected with kind_code_disallowed unless an earlier op is rejected, a
\* passing op is not rejected with kind_code_disallowed
PolicyVerdict(k, passes) ==
  IF passes
  THEN DesignatedOp = k => last.res.code # "kind_code_disallowed"
  ELSE /\ ~last.res.ok
       /\ DesignatedOp \in 1..k
       /\ DesignatedOp = k => last.res.code = "kind_code_disallowed"

\* C19 as stated: under strict_kind_code a suggest op passes the policy iff
\* allow_suggest_any, any other op iff its block's kindCode lies in some allow_ranges
\* interval; a failing op is rejected with kind_code_disallowed; without
\* strict_kind_code no op is rejected with kind_code_disallowed.
C19_SuggestIffAllowAny ==
  OpLoopRan
  => IF last.opts.strict_kind_code
     THEN \A k \in 1..Len(last.patch.ops) :
            TargetIndex(k) # 0
            => PolicyVerdict(k, IF last.patch.ops[k].op = "suggest"
                                THEN last.opts.kind_code_policy.allow_suggest_any
                                ELSE InAllowRanges(k))
     ELSE last.res.code # "kind_code_disallowed"

\* C19: under strict_kind_code an op passes the policy iff its block's kindCode lies in
\* some allow_ranges interval or it is a suggest and allow_suggest_any is true; a failing
\* op is rejected with kind_code_disallowed; without strict_kind_code no op is rejected
\* with kind_code_disallowed.
C19_SuggestExemptOrInRange ==
  OpLoopRan
  => IF last.opts.strict_kind_code
     THEN \A k \in 1..Len(last.patch.ops) :
            TargetIndex(k) # 0
            => PolicyVerdict(k, \/ InAllowRanges(k)
                                \/ /\ last.patch.ops[k].op = "suggest"
                                   /\ last.opts.kind_code_policy.allow_suggest_any)
     ELSE last.res.code # "kind_code_disallowed"

\* a strict validation without the suggest exemption that accepts a suggest on a block
\* inside the ranges
C19_Witness ==
  /\ OpLoopRan
  /\ last.opts.strict_kind_code
  /\ ~last.opts.kind_code_policy.allow_suggest_any
  /\ Len(last.patch.ops) = 1
  /\ last.patch.ops[1].op = "suggest"
  /\ TargetIndex(1) # 0
  /\ InAllowRanges(1)
  /\ last.res.ok

\* a kindCode of the v1 codebook: 0..59 or 99
CanonicalKindCode(kc) == kc \in 0..UiChromeEnd \/ kc = KindUnknown

\* C20: a validation against an edit packet rejects every patch with an op on a block
\* whose kindCode is outside the codebook's ranges, whatever strict_kind_code is.
C20_OutOfRangeKindRejected ==
  Ran("validate_pkt")
  => \A k \in 1..Len(last.patch.ops) :
       LET idx == FirstIndexFrom(last.target.b, last.patch.ops[k].block_id, 1) IN
       (idx # 0 /\ ~CanonicalKindCode(last.target.b[idx].kind_code)) => ~last.res.ok

\* C21: a validation against an edit packet K with v = 1 returns what the validation of
\* the lifted document (K's blocks in order, hash_algorithm = K.ha, page_hash = K.h)
\* returns under O', where O' is O with expected_page_hash = K.h when O is not strict and
\* has no expected_page_hash; a non-strict patch without h is never answered with
\* patch_page_hash_missing.
C21_PacketValidationIsLiftedValidation ==
  (Ran("validate_pkt") /\ last.target.v = 1)
  => LET K == last.target
         O == last.opts
         D == [page_hash |-> K.h, hash_algorithm |-> K.ha, blocks |-> K.b]
         Oprime == IF ~O.strict_page_hash_binding /\ O.expected_page_hash = None
                   THEN [O EXCEPT !.expected_page_hash = Some(K.h)]
                   ELSE O
     IN /\ last.res \in {validate_patch_with_diagnostics(D, last.patch, Oprime, order) :
                           order \in IterationOrders(SeenKeys(last.patch.ops))}
        /\ (~O.strict_page_hash_binding /\ IsNone(last.patch.h))
           => last.res.code # "patch_page_hash_missing"

\* a patch without h and without expected_page_hash accepted against an edit packet
C21_Witness ==
  /\ Ran("validate_pkt")
  /\ last.target.v = 1
  /\ IsNone(last.patch.h)
  /\ IsNone(last.opts.expected_page_hash)
  /\ ~last.opts.strict_page_hash_binding
  /\ last.res.ok

\* C22: a successful apply of a patch holding one insert_after op returns the target's
\* blocks with one new block right after the anchor, whose id, kindCode and text are the
\* op's new_block_id, kind_code and text.
C22_InsertCarriesOpFields ==
  (AppliedOk /\ last.res.ok /\ Len(last.patch.ops) = 1
     /\ last.patch.ops[1].op = "insert_after")
  => LET op == last.patch.ops[1]
         old == BlocksOf(last.target)
         new == BlocksOf(Unwrap(last.res.out))
         a == FirstIndexFrom(old, op.block_id, 1)
     IN /\ Len(new) = Len(old) + 1
        /\ \A i \in 1..a : new[i].id = old[i].id
        /\ \A i \in (a + 1)..Len(old) : new[i + 1].id = old[i].id
        /\ new[a + 1].id = Unwrap(op.new_block_id)
        /\ new[a + 1].kind_code = Unwrap(op.kind_code)
        /\ new[a + 1].text = Unwrap(op.text)

\* C23: when the validation inside an apply call accepts a patch holding one delete_block
\* or replace_block op, the call returns Ok; after delete_block the output is the target's
\* blocks without the anchor, after replace_block the anchor keeps its id and kindCode and
\* its text is the op's text.
C23_BlockOpsExecuted ==
  (AppliedOk /\ last.res.stage \in {"apply", "done"} /\ Len(last.patch.ops) = 1
     /\ last.patch.ops[1].op \in {"delete_block", "replace_block"})
  => LET op == last.patch.ops[1]
         old == BlocksOf(last.target)
         a == FirstIndexFrom(old, op.block_id, 1)
     IN /\ last.res.ok
        /\ LET new == BlocksOf(Unwrap(last.res.out)) IN
           IF op.op = "delete_block"
           THEN /\ Len(new) = Len(old) - 1
                /\ \A i \in 1..(a - 1) : new[i].id = old[i].id
                /\ \A i \in (a + 1)..Len(old) : new[i - 1].id = old[i].id
           ELSE /\ Len(new) = Len(old)
                /\ \A i \in 1..Len(old) :
                     /\ new[i].id = old[i].id
                     /\ new[i].kind_code = old[i].kind_code
                /\ new[a].text = Unwrap(op.text)

\* the positions where b occurs in t
MatchStarts(t, b) == {i \in 1..Len(t) : StartsAt(t, b, i)}

\* the non-overlapping matches of b in t, taken left to right: a match counts unless an
\* earlier counted match covers its start
LeftToRightMatches(t, b) ==
  CHOOSE P \in SUBSET MatchStarts(t, b) :
    \A i \in MatchStarts(t, b) :
      i \in P <=> ~\E j \in P : j < i /\ i < j + Len(b)

\* t without the n characters that start at each position of P
WithoutSpans(t, P, n) ==
  LET kept == {i \in 1..Len(t) : \A j \in P : i < j \/ i >= j + n} IN
  [m \in 1..Cardinality(kept) |->
     t[CHOOSE i \in kept : Cardinality({x \in kept : x <= i}) = m]]

\* the text of block id in a working copy
TextOf(b, id) == b[find_block_index(b, id)].text

IsLegacyDelete(op) ==
  op.op = "delete" /\ op.occurrence \in {Some(LegacyFirst), Some(LegacyAll)}

\* C24: in a successful apply, a delete op with occurrence "first" turns the current text
\* of its block into that text without its first match of `before`, and one with
\* occurrence "all" into that text without every non-overlapping match taken left to
\* right; every other character stays, in order.
C24_LegacyDeleteSelectors ==
  (AppliedOk /\ last.res.ok)
  => \A k \in 1..Len(last.patch.ops) :
       IsLegacyDelete(last.patch.ops[k])
       => LET op == last.patch.ops[k]
              t == TextOf(WorkingCopyAt(k).b, op.block_id)
              u == TextOf(WorkingCopyAt(k + 1).b, op.block_id)
              P == LeftToRightMatches(t, Unwrap(op.before))
              first == {i \in P : \A j \in P : i <= j}
          IN u = WithoutSpans(t, IF op.occurrence = Some(LegacyFirst) THEN first ELSE P,
                              Len(Unwrap(op.before)))

C24_Witness ==
  /\ AppliedOk /\ last.res.ok /\ Len(last.patch.ops) = 1
  /\ IsLegacyDelete(last.patch.ops[1])
  /\ last.patch.ops[1].occurrence = Some(LegacyAll)
  /\ Cardinality(LeftToRightMatches(TextOf(BlocksOf(last.target), last.patch.ops[1].block_id),
                                    Unwrap(last.patch.ops[1].before))) = 2
  /\ TextOf(BlocksOf(Unwrap(last.res.out)), last.patch.ops[1].block_id) = <<" ">>

\* C25: when the one replace op of a patch has a `before` that the NFC view of its block's
\* text contains but the stored text, as written, does not, the apply is not rejected by
\* validation and returns the text with the matched span replaced: in NFC view, the
\* output text is the input text with the match of `before` replaced by `after`.
C25_EquivalentEncodingReplaced ==
  (AppliedOk /\ Len(last.patch.ops) = 1 /\ last.patch.ops[1].op = "replace"
     /\ last.res.stage \in {"apply", "done"}
     /\ FindFrom(TextOf(BlocksOf(last.target), last.patch.ops[1].block_id),
                 Unwrap(last.patch.ops[1].before), 1) = 0)
  => LET op == last.patch.ops[1]
         t == TextOf(BlocksOf(last.target), op.block_id)
     IN /\ last.res.ok
        /\ normalize_nfc(TextOf(BlocksOf(Unwrap(last.res.out)), op.block_id))
             = replace_first(normalize_nfc(t), normalize_nfc(Unwrap(op.before)),
                             normalize_nfc(Unwrap(op.after)))

\* position of the op's block in the packet when one is given and holds the block
\* (<<0, position>>), otherwise +infinity (<<1, 0>>); ids: the block ids of the packet in
\* its order, or None
ListedPosition(op, ids) ==
  IF IsSome(ids) /\ \E i \in 1..Len(Unwrap(ids)) : Unwrap(ids)[i] = op.block_id
  THEN <<0, CHOOSE i \in 1..Len(Unwrap(ids)) : Unwrap(ids)[i] = op.block_id>>
  ELSE <<1, 0>>

\* delete < replace < insert_after < suggest
ListedOpRank(op) ==
  CHOOSE r \in 1..4 : <<"delete", "replace", "insert_after", "suggest">>[r] = op

\* occurrences in the listed order: integers ascending, "first" before "all", none last
OccurrenceNotAfter(a, b) ==
  \/ a = b
  \/ IsNone(b)
  \/ IsSome(a) /\ IsIndex(Unwrap(a)) /\ IsSome(b) /\ IsIndex(Unwrap(b))
       /\ Unwrap(a)[2] <= Unwrap(b)[2]
  \/ a = Some(LegacyFirst) /\ b = Some(LegacyAll)
  \/ IsSome(a) /\ IsIndex(Unwrap(a)) /\ b = Some(LegacyAll)
  \/ IsSome(a) /\ IsSome(b) /\ LegacyFirst \in {Unwrap(a), Unwrap(b)}
       /\ LegacyAll \notin {Unwrap(a), Unwrap(b)}

\* op x does not sort after op y under the listed key: the first component that differs
\* decides, the occurrence last
KeyNotAfter(x, y, ids) ==
  \E px \in {ListedPosition(x, ids)}, py \in {ListedPosition(y, ids)} :
  \E c \in {Then(RankCmp(px, py),
              Then(StrCmp(x.block_id, y.block_id),
              Then(IntCmp(ListedOpRank(x.op), ListedOpRank(y.op)),
              Then(StrCmp(UnwrapOrDefault(x.before, <<>>), UnwrapOrDefault(y.before, <<>>)),
              Then(StrCmp(UnwrapOrDefault(x.after, <<>>), UnwrapOrDefault(y.after, <<>>)),
              Then(StrCmp(UnwrapOrDefault(x.new_block_id, <<>>),
                          UnwrapOrDefault(y.new_block_id, <<>>)),
              Then(IntCmp(UnwrapOrDefault(x.kind_code, 0), UnwrapOrDefault(y.kind_code, 0)),
              Then(StrCmp(UnwrapOrDefault(x.text, <<>>), UnwrapOrDefault(y.text, <<>>)),
                   StrCmp(UnwrapOrDefault(x.message, <<>>),
                          UnwrapOrDefault(y.message, <<>>))))))))))} :
    c < 0 \/ (c = 0 /\ OccurrenceNotAfter(x.occurrence, y.occurrence))

\* ops x and y have equal keys
KeysTie(x, y, ids) ==
  /\ KeyNotAfter(x, y, ids)
  /\ KeyNotAfter(y, x, ids)
  /\ occurrence_rank(x.occurrence) = occurrence_rank(y.occurrence)

\* out is sorted by the listed key, and the ops whose key ties with an op's key come in
\* out in the order they have in ops
SortedAndStable(ops, out, ids) ==
  /\ \A i \in 1..(Len(out) - 1) : KeyNotAfter(out[i], out[i + 1], ids)
  /\ \A k \in 1..Len(ops) :
       LET Tied(x) == KeysTie(x, ops[k], ids)
       IN SelectSeq(out, Tied) = SelectSeq(ops, Tied)

\* C26: for every op list of ranked ops, canonicalize_patch_ops and
\* canonicalize_patch_ops_against_edit_packet return the ops sorted non-decreasingly by
\* the listed key, ops with equal keys in their original relative order.
C26_CanonicalOrder ==
  (\A i \in 1..Len(patch.ops) : patch.ops[i].op \in RankedOps)
  => /\ \A out \in {canonicalize_patch_ops(patch).ops} :
          SortedAndStable(patch.ops, out, None)
     /\ \A out \in {canonicalize_patch_ops_against_edit_packet(pkt, patch).ops},
           ids \in {[i \in 1..Len(pkt.b) |-> pkt.b[i].id]} :
          SortedAndStable(patch.ops, out, Some(ids))

\* a canonicalization has moved a replace behind two deletes whose keys tie, and the two
\* are in the order the last call saw them in
C26_Witness ==
  /\ last.call # "none"
  /\ Len(patch.ops) = 3
  /\ patch.ops = <<last.patch.ops[2], last.patch.ops[3], last.patch.ops[1]>>
  /\ patch.ops[1] # patch.ops[2]
  /\ KeysTie(patch.ops[1], patch.ops[2], None)
  /\ ~KeysTie(patch.ops[2], patch.ops[3], None)

\* the code of the first failure in the listed order: patch version, edit-packet version,
\* page-hash binding with the comparison against the target's page hash, algorithm
\* binding, conflict scan, per-op checks; "" when nothing fails
ListedFirstFailure(packet, p, o, order) ==
  LET d == Document(packet.h, packet.ha, packet.b)
      oo == IF ~o.strict_page_hash_binding /\ IsNone(o.expected_page_hash)
            THEN [o EXCEPT !.expected_page_hash = Some(packet.h)]
            ELSE o
  IN
  IF p.v # 1 THEN "unsupported_patch_version"
  ELSE IF packet.v # 1 THEN "unsupported_edit_packet_version"
  ELSE IF ~StrictBinding(p, oo).ok THEN StrictBinding(p, oo).code
  ELSE IF ~ExpectedHashOf(p, oo).diag.ok THEN ExpectedHashOf(p, oo).diag.code
  ELSE IF ~PageHashCompare(d, Unwrap(ExpectedHashOf(p, oo).expected)).ok
  THEN "patch_page_hash_mismatch"
  ELSE IF ~AlgorithmBinding(d, p).ok THEN AlgorithmBinding(d, p).code
  ELSE IF ~ConflictScan(p.ops, order, 1).ok THEN "conflicting_operations"
  ELSE ValidateOpsFrom(d, p.ops, oo, 1).code

\* C27: a validation against an edit packet fails exactly when some check of the listed
\* order fails, and its diagnostic carries the code of the first failure in that order.
C27_DiagnosticPrecedence ==
  Ran("validate_pkt")
  => \E order \in IterationOrders(SeenKeys(last.patch.ops)) :
       last.res.code = ListedFirstFailure(last.target, last.patch, last.opts, order)

\* the n-th smallest element of the set P of positions
NthOf(P, n) == CHOOSE i \in P : Cardinality({j \in P : j <= i}) = n

\* C28: replace_nth_non_overlapping(t, b, a, n) and delete_nth_non_overlapping(t, b, n)
\* return a value exactly when 1 <= n <= count_non_overlapping(t, b); that count is the
\* number of matches of b in t taken left to right without overlap; the value returned is
\* t with the n-th such match replaced by a.
C28_OccurrenceSelectionAgrees ==
  (Ran("replace_nth") \/ Ran("delete_nth"))
  => LET P == LeftToRightMatches(last.t, last.b)
         matches == count_non_overlapping(last.t, last.b)
     IN /\ matches = Cardinality(P)
        /\ IsSome(last.res) <=> (1 <= last.n /\ last.n <= matches)
        /\ IsSome(last.res)
           => LET i == NthOf(P, last.n) IN
              Unwrap(last.res) = SubSeq(last.t, 1, i - 1) \o last.a
                                 \o SubSeq(last.t, i + Len(last.b), Len(last.t))

\* "aa" in "aaaa": two matches, the second replaced, and no third
C28_Witness ==
  /\ Ran("replace_nth")
  /\ last.t = <<"a", "a", "a", "a">> /\ last.b = <<"a", "a">> /\ last.n = 2
  /\ count_non_overlapping(last.t, last.b) = 2
  /\ last.res = Some(<<"a", "a", "z">>)

\* C29: in a successful apply, the block an insert_after op adds after its anchor has the
\* id "<anchor>_ins" when no block of the working copy the op starts from has that id,
\* and otherwise "<anchor>_ins<n>" for the smallest n >= 2 such that no block has that
\* id; the id is carried by no block of that working copy.
C29_MintedIdFirstUnused ==
  (AppliedOk /\ last.res.ok)
  => \A k \in 1..Len(last.patch.ops) :
       last.patch.ops[k].op = "insert_after"
       => LET b == WorkingCopyAt(k).b
              anchor == last.patch.ops[k].block_id
              id == WorkingCopyAt(k + 1).b[find_block_index(b, anchor) + 1].id
              base == anchor \o <<"_ins">>
              numbered(n) == base \o <<ToString(n)>>
          IN /\ ~IdUsed(b, id)
             /\ IF ~IdUsed(b, base) THEN id = base
                ELSE \E n \in 2..(Len(b) + 2) :
                       /\ id = numbered(n)
                       /\ \A m \in 2..(n - 1) : IdUsed(b, numbered(m))

\* two inserts at anchor p into blocks that already hold p_ins: p_ins2, then p_ins3
C29_Witness ==
  /\ AppliedOk /\ last.res.ok
  /\ Len(last.patch.ops) = 2
  /\ \A i \in 1..2 : last.patch.ops[i].op = "insert_after" /\ last.patch.ops[i].block_id = IdP
  /\ IdUsed(BlocksOf(last.target), IdPIns)
  /\ WorkingCopyAt(2).b[2].id = IdPIns \o <<"2">>
  /\ BlocksOf(Unwrap(last.res.out))[2].id = IdPIns \o <<"3">>
  /\ BlocksOf(Unwrap(last.res.out))[3].id = IdPIns \o <<"2">>

EditsText(op) == op.op \in {"replace", "delete"}

\* C30: a successful apply of a patch of suggest, replace and delete ops returns as many
\* blocks as the target has, with the same ids and kindCodes in the same order, and a
\* block's text differs from the target's only if a replace or delete op names the block;
\* a patch of suggest ops alone returns every text as it was.
C30_FrameOfNonStructuralOps ==
  (AppliedOk /\ last.res.ok
     /\ \A k \in 1..Len(last.patch.ops) :
          last.patch.ops[k].op = "suggest" \/ EditsText(last.patch.ops[k]))
  => LET old == BlocksOf(last.target)
         new == BlocksOf(Unwrap(last.res.out))
     IN /\ Len(new) = Len(old)
        /\ \A i \in 1..Len(old) :
             /\ new[i].id = old[i].id
             /\ new[i].kind_code = old[i].kind_code
             /\ new[i].text # old[i].text
                => \E k \in 1..Len(last.patch.ops) :
                     EditsText(last.patch.ops[k]) /\ last.patch.ops[k].block_id = old[i].id

\* a replace on block p has changed its text and left block q, which precedes it, alone
C30_Witness ==
  /\ AppliedOk /\ last.res.ok
  /\ Len(last.patch.ops) = 1
  /\ last.patch.ops[1].op = "replace" /\ last.patch.ops[1].block_id = IdP
  /\ BlocksOf(last.target)[1].id = IdQ
  /\ Len(BlocksOf(last.target)) = 2
  /\ TextOf(BlocksOf(Unwrap(last.res.out)), IdP) # TextOf(BlocksOf(last.target), IdP)
  /\ TextOf(BlocksOf(Unwrap(last.res.out)), IdQ) = TextOf(BlocksOf(last.target), IdQ)

====
